---- MODULE Spec2Model ----
(***************************************************************************)
(* A model of hetzner-mcp-server: the transport client (src/src/api.ts),   *)
(* the error normalizer handleApiError, the 14 tool handlers (servers,     *)
(* SSH keys, reference data) and the start-up code in main.                *)
(*                                                                         *)
(* Text is modelled by TLA+ strings; a template literal is the             *)
(* concatenation (\o) of its literal parts and its interpolated values.    *)
(* A backquote of the source text is written as an apostrophe.             *)
(***************************************************************************)
EXTENDS Integers, Sequences, FiniteSets, TLC

(***************************************************************************)
(* JavaScript values that may be undefined: [def, s].  JsUndef is          *)
(* undefined (or null); JsStr(s) is the string s.                          *)
(***************************************************************************)
JsUndef == [def |-> FALSE, s |-> ""]

JsStr(str) == [def |-> TRUE, s |-> str]

\* JavaScript truthiness of an optional string: undefined, null and "" are falsy.
Truthy(v) == v.def /\ v.s # ""

\* v || d for an optional string v and a string d.
OrElse(v, d) == IF Truthy(v) THEN v.s ELSE d

\* s starts with the string p.
StartsWith(s, p) == Len(s) >= Len(p) /\ SubSeq(s, 1, Len(p)) = p

\* the string sub occurs in s.
Contains(s, sub) ==
    \E i \in 1..(Len(s) + 1) :
        i + Len(sub) - 1 <= Len(s) /\ SubSeq(s, i, i + Len(sub) - 1) = sub

(***************************************************************************)
(* Thrown values, as handleApiError can tell them apart.                   *)
(*   cls         "AxiosError" | "Error" | "other" (a non-Error value)      *)
(*   hasResponse error.response is set                                     *)
(*   status      error.response.status                                     *)
(*   body        error.response.data: its shape (kind) and, when it is an  *)
(*               object with an error object, that object's message        *)
(*   code        error.code                                                *)
(*   message     error.message                                             *)
(***************************************************************************)
NoBody == [kind |-> "undefined", message |-> JsUndef]

BodyShapes ==
    { [kind |-> k, message |-> JsUndef] : k \in {"undefined", "null", "text", "object"} }
    \cup { [kind |-> "error", message |-> m] :
             m \in {JsUndef, JsStr(""), JsStr("server is locked")} }

Statuses == {400, 401, 403, 404, 409, 422, 429, 500, 503}

TokenRequiredMessage == "HETZNER_API_TOKEN environment variable is required"

AxiosResponseErrors ==
    [cls : {"AxiosError"}, hasResponse : {TRUE}, status : Statuses, body : BodyShapes,
     code : {JsUndef, JsStr("ERR_BAD_REQUEST"), JsStr("ECONNABORTED")},
     message : {"", "Request failed"}]

AxiosNetworkErrors ==
    [cls : {"AxiosError"}, hasResponse : {FALSE}, status : {0}, body : {NoBody},
     code : {JsUndef, JsStr("ECONNABORTED"), JsStr("ENOTFOUND"), JsStr("ECONNREFUSED"),
             JsStr("EHOSTUNREACH"), JsStr("ERR_NETWORK")},
     message : {"", "Network Error"}]

PlainErrors ==
    [cls : {"Error"}, hasResponse : {FALSE}, status : {0}, body : {NoBody},
     code : {JsUndef},
     message : {"", "Unexpected token < in JSON", TokenRequiredMessage}]

\* thrown values that are no Error at all (a string, undefined, a plain object)
NonErrors ==
    [cls : {"other"}, hasResponse : {FALSE}, status : {0}, body : {NoBody},
     code : {JsUndef, JsStr("ECONNABORTED")}, message : {"", "not an error"}]

ThrownValues == AxiosResponseErrors \cup AxiosNetworkErrors \cup PlainErrors \cup NonErrors

\* the Error thrown by getApiClient when the credential is absent
ConfigError ==
    [cls |-> "Error", hasResponse |-> FALSE, status |-> 0, body |-> NoBody,
     code |-> JsUndef, message |-> TokenRequiredMessage]

(***************************************************************************)
(* How a call of a function ends: it returns a value or throws one.        *)
(***************************************************************************)
Returned(v) == [threw |-> FALSE, value |-> v]

Threw(e) == [threw |-> TRUE, value |-> e]

\* the TypeError of reading a property of undefined or null
TypeError ==
    [cls |-> "Error", hasResponse |-> FALSE, status |-> 0, body |-> NoBody,
     code |-> JsUndef, message |-> "Cannot read properties of undefined"]

(***************************************************************************)
(* handleApiError (api.ts:44-81)                                           *)
(***************************************************************************)
\* a variant of dataError that reads data.error without optional chaining
dataErrorUnchained(body) ==
    IF body.kind \in {"undefined", "null"}
        THEN Threw(TypeError)
        ELSE Returned(IF body.kind = "error" THEN body.message ELSE JsUndef)

\* data?.error followed by hetznerError?.message: optional chaining yields
\* undefined for a body that is undefined, null, or has no error object
dataError(body) ==
    Returned(IF body.kind = "error" THEN body.message ELSE JsUndef)

MsgAuth == "Error: Authentication failed. Please check your HETZNER_API_TOKEN."

MsgRateLimit == "Error: Rate limit exceeded. Please wait a moment before making more requests."

MsgUnavailable == "Error: Hetzner API is temporarily unavailable. Please try again later."

MsgTimeout == "Error: Request timed out. Please try again."

MsgConnect == "Error: Could not connect to Hetzner API. Please check your internet connection."

MsgUnexpected == "Error: An unexpected error occurred."

PrefixForbidden == "Error: Permission denied. "

PrefixNotFound == "Error: Resource not found. "

PrefixConflict == "Error: Conflict. "

PrefixInvalid == "Error: Invalid request. "

HintForbidden == "You don't have access to this resource."

HintNotFound == "Please check the ID is correct."

HintConflict == "The resource is in a conflicting state."

HintInvalid == "Please check your parameters."

PrefixFailed(status) == "Error: API request failed (" \o ToString(status) \o "). "

\* a variant of StatusMessage whose switch has no case 409
StatusMessageNo409(status, detail, errorMessage) ==
    CASE status = 401 -> MsgAuth
      [] status = 403 -> PrefixForbidden \o OrElse(detail, HintForbidden)
      [] status = 404 -> PrefixNotFound \o OrElse(detail, HintNotFound)
      [] status = 422 -> PrefixInvalid \o OrElse(detail, HintInvalid)
      [] status = 429 -> MsgRateLimit
      [] status = 503 -> MsgUnavailable
      [] OTHER -> PrefixFailed(status) \o OrElse(detail, errorMessage)

\* a variant of StatusMessage that prints the fixed hint for 403 and appends the
\* provider's detail to the 429 message
StatusMessageDetailMisplaced(status, detail, errorMessage) ==
    CASE status = 401 -> MsgAuth
      [] status = 403 -> PrefixForbidden \o HintForbidden
      [] status = 404 -> PrefixNotFound \o OrElse(detail, HintNotFound)
      [] status = 409 -> PrefixConflict \o OrElse(detail, HintConflict)
      [] status = 422 -> PrefixInvalid \o OrElse(detail, HintInvalid)
      [] status = 429 -> MsgRateLimit \o " " \o OrElse(detail, "")
      [] status = 503 -> MsgUnavailable
      [] OTHER -> PrefixFailed(status) \o OrElse(detail, errorMessage)

\* the switch on error.response.status; detail is hetznerError?.message
StatusMessage(status, detail, errorMessage) ==
    CASE status = 401 -> MsgAuth
      [] status = 403 -> PrefixForbidden \o OrElse(detail, HintForbidden)
      [] status = 404 -> PrefixNotFound \o OrElse(detail, HintNotFound)
      [] status = 409 -> PrefixConflict \o OrElse(detail, HintConflict)
      [] status = 422 -> PrefixInvalid \o OrElse(detail, HintInvalid)
      [] status = 429 -> MsgRateLimit
      [] status = 503 -> MsgUnavailable
      [] OTHER -> PrefixFailed(status) \o OrElse(detail, errorMessage)

\* a variant of handleApiError with the two error codes exchanged
handleApiErrorCodesExchanged(error) ==
    IF error.cls = "AxiosError" /\ error.hasResponse
        THEN LET detail == dataError(error.body)
             IN  IF detail.threw
                     THEN detail
                     ELSE Returned(StatusMessage(error.status, detail.value, error.message))
    ELSE IF error.cls = "AxiosError" /\ error.code = JsStr("ENOTFOUND")
        THEN Returned(MsgTimeout)
    ELSE IF error.cls = "AxiosError" /\ error.code = JsStr("ECONNABORTED")
        THEN Returned(MsgConnect)
    ELSE IF error.cls \in {"AxiosError", "Error"}
        THEN Returned("Error: " \o error.message)
    ELSE Returned(MsgUnexpected)

\* a variant of handleApiError without the branch for Error instances: every
\* thrown value that is not recognized gets the fixed message
handleApiErrorFixedFallback(error) ==
    IF error.cls = "AxiosError" /\ error.hasResponse
        THEN LET detail == dataError(error.body)
             IN  IF detail.threw
                     THEN detail
                     ELSE Returned(StatusMessage(error.status, detail.value, error.message))
    ELSE IF error.cls = "AxiosError" /\ error.code = JsStr("ECONNABORTED")
        THEN Returned(MsgTimeout)
    ELSE IF error.cls = "AxiosError" /\ error.code = JsStr("ENOTFOUND")
        THEN Returned(MsgConnect)
    ELSE Returned(MsgUnexpected)

handleApiError(error) ==
    IF error.cls = "AxiosError" /\ error.hasResponse
        THEN LET detail == dataError(error.body)
             IN  IF detail.threw
                     THEN detail
                     ELSE Returned(StatusMessage(error.status, detail.value, error.message))
    ELSE IF error.cls = "AxiosError" /\ error.code = JsStr("ECONNABORTED")
        THEN Returned(MsgTimeout)
    ELSE IF error.cls = "AxiosError" /\ error.code = JsStr("ENOTFOUND")
        THEN Returned(MsgConnect)
    ELSE IF error.cls \in {"AxiosError", "Error"}
        THEN Returned("Error: " \o error.message)
    ELSE Returned(MsgUnexpected)

(***************************************************************************)
(* Text helpers: Array.prototype.join and JSON.stringify(value, null, 2).  *)
(***************************************************************************)
RECURSIVE Join(_, _)
\* lines.join(sep) for a sequence of strings
Join(strs, sep) ==
    IF Len(strs) = 0 THEN ""
    ELSE IF Len(strs) = 1 THEN strs[1]
    ELSE strs[1] \o sep \o Join(Tail(strs), sep)

\* JSON values
JNull == [t |-> "null"]

JString(str) == [t |-> "string", v |-> str]

JNumber(n) == [t |-> "number", v |-> n]

JBool(b) == [t |-> "bool", v |-> b]

JArray(items) == [t |-> "array", v |-> items]

\* fields: a sequence of <<key, value>>; a property whose value is undefined is
\* left out by the caller, as JSON.stringify leaves it out
JObject(fields) == [t |-> "object", v |-> fields]

\* an optional string as a JSON value: null stays null
JOptString(v) == IF v.def THEN JString(v.s) ELSE JNull

RECURSIVE Stringify(_, _)
\* JSON.stringify(value, null, 2), at indentation ind
Stringify(value, ind) ==
    LET inner == ind \o "  "
    IN  CASE value.t = "null" -> "null"
          [] value.t = "string" -> "\"" \o value.v \o "\""
          [] value.t = "number" -> ToString(value.v)
          [] value.t = "bool" -> (IF value.v THEN "true" ELSE "false")
          [] value.t = "array" ->
               IF Len(value.v) = 0 THEN "[]"
               ELSE "[\n"
                    \o Join([i \in 1..Len(value.v) |-> inner \o Stringify(value.v[i], inner)], ",\n")
                    \o "\n" \o ind \o "]"
          [] value.t = "object" ->
               IF Len(value.v) = 0 THEN "{}"
               ELSE "{\n"
                    \o Join([i \in 1..Len(value.v) |->
                               inner \o "\"" \o value.v[i][1] \o "\": "
                                     \o Stringify(value.v[i][2], inner)], ",\n")
                    \o "\n" \o ind \o "}"

JSONstringify(value) == Stringify(value, "")

(***************************************************************************)
(* Entities (types.ts).  labels is the label map as the sequence of its    *)
(* entries <<key, value>>, in Object.entries order.                        *)
(***************************************************************************)
NoImage == [def |-> FALSE, name |-> "", os_flavor |-> "", os_version |-> ""]

ServerWeb ==
    [id |-> 1, name |-> "web-1", status |-> "running",
     ipv4 |-> JsStr("203.0.113.7"), ipv6 |-> JsStr("2001:db8::/64"),
     type_name |-> "cx22", cores |-> 2, memory |-> 4, disk |-> 40,
     city |-> "Falkenstein", country |-> "DE", dc_name |-> "fsn1-dc14",
     image |-> [def |-> TRUE, name |-> "ubuntu-24.04", os_flavor |-> "ubuntu",
                os_version |-> "24.04"],
     labels |-> << <<"env", "prod">> >>,
     created |-> "2024-01-15T10:30:00+00:00"]

ServerNew ==
    [id |-> 2, name |-> "my-app", status |-> "initializing",
     ipv4 |-> JsUndef, ipv6 |-> JsUndef,
     type_name |-> "cpx11", cores |-> 2, memory |-> 2, disk |-> 40,
     city |-> "Nuremberg", country |-> "DE", dc_name |-> "nbg1-dc3",
     image |-> NoImage,
     labels |-> << >>,
     created |-> "2024-03-01T08:00:00+00:00"]

ServerOff ==
    [id |-> 3, name |-> "db-1", status |-> "off",
     ipv4 |-> JsStr("198.51.100.4"), ipv6 |-> JsUndef,
     type_name |-> "cx22", cores |-> 2, memory |-> 4, disk |-> 40,
     city |-> "Helsinki", country |-> "FI", dc_name |-> "hel1-dc2",
     image |-> [def |-> TRUE, name |-> "debian-12", os_flavor |-> "debian",
                os_version |-> "12"],
     labels |-> << <<"env", "prod">>, <<"tier", "db">> >>,
     created |-> "2024-01-15T10:30:00+00:00"]

Servers == {ServerWeb, ServerNew, ServerOff}

\* new Date(iso).toLocaleString(), in the en-US locale and UTC
toLocaleString(iso) ==
    CASE iso = "2024-01-15T10:30:00+00:00" -> "1/15/2024, 10:30:00 AM"
      [] iso = "2024-03-01T08:00:00+00:00" -> "3/1/2024, 8:00:00 AM"
      [] OTHER -> "Invalid Date"

\* a variant of formatLabels that writes each label as key: value
formatLabelsColon(labels) ==
    Join([i \in 1..Len(labels) |-> labels[i][1] \o ": " \o labels[i][2]], ", ")

\* Object.entries(labels).map(([k, v]) => k=v).join(", ")
formatLabels(labels) ==
    Join([i \in 1..Len(labels) |-> labels[i][1] \o "=" \o labels[i][2]], ", ")

\* a variant of formatServerLines that puts the image line after the
\* creation time
formatServerLinesImageLate(server) ==
    LET ipv4 == OrElse(server.ipv4, "N/A")
        ipv6 == OrElse(server.ipv6, "N/A")
    IN  << "## " \o server.name \o " (ID: " \o ToString(server.id) \o ")",
           "- **Status**: " \o server.status,
           "- **IPv4**: " \o ipv4,
           "- **IPv6**: " \o ipv6,
           "- **Type**: " \o server.type_name \o " (" \o ToString(server.cores) \o " cores, "
               \o ToString(server.memory) \o "GB RAM, " \o ToString(server.disk) \o "GB disk)",
           "- **Location**: " \o server.city \o ", " \o server.country
               \o " (" \o server.dc_name \o ")" >>
        \o << "- **Created**: " \o toLocaleString(server.created) >>
        \o (IF server.image.def
              THEN << "- **Image**: " \o server.image.name \o " (" \o server.image.os_flavor
                        \o " " \o server.image.os_version \o ")" >>
              ELSE << >>)
        \o (IF Len(server.labels) > 0
              THEN << "- **Labels**: " \o formatLabels(server.labels) >>
              ELSE << >>)

\* formatServer (tools/servers.ts, api.ts:97-121): the lines before the join
formatServerLines(server) ==
    LET ipv4 == OrElse(server.ipv4, "N/A")
        ipv6 == OrElse(server.ipv6, "N/A")
    IN  << "## " \o server.name \o " (ID: " \o ToString(server.id) \o ")",
           "- **Status**: " \o server.status,
           "- **IPv4**: " \o ipv4,
           "- **IPv6**: " \o ipv6,
           "- **Type**: " \o server.type_name \o " (" \o ToString(server.cores) \o " cores, "
               \o ToString(server.memory) \o "GB RAM, " \o ToString(server.disk) \o "GB disk)",
           "- **Location**: " \o server.city \o ", " \o server.country
               \o " (" \o server.dc_name \o ")" >>
        \o (IF server.image.def
              THEN << "- **Image**: " \o server.image.name \o " (" \o server.image.os_flavor
                        \o " " \o server.image.os_version \o ")" >>
              ELSE << >>)
        \o << "- **Created**: " \o toLocaleString(server.created) >>
        \o (IF Len(server.labels) > 0
              THEN << "- **Labels**: " \o formatLabels(server.labels) >>
              ELSE << >>)

formatServer(server) == Join(formatServerLines(server), "\n")

\* a label map as a JSON object
LabelsJson(labels) ==
    JObject([i \in 1..Len(labels) |-> <<labels[i][1], JString(labels[i][2])>>])

\* a Server as the JSON value the provider sent
ServerJson(server) ==
    JObject(<<
        <<"id", JNumber(server.id)>>,
        <<"name", JString(server.name)>>,
        <<"status", JString(server.status)>>,
        <<"public_net", JObject(<<
            <<"ipv4", IF server.ipv4.def
                        THEN JObject(<< <<"ip", JString(server.ipv4.s)>> >>) ELSE JNull>>,
            <<"ipv6", IF server.ipv6.def
                        THEN JObject(<< <<"ip", JString(server.ipv6.s)>> >>) ELSE JNull>> >>)>>,
        <<"server_type", JObject(<<
            <<"name", JString(server.type_name)>>,
            <<"cores", JNumber(server.cores)>>,
            <<"memory", JNumber(server.memory)>>,
            <<"disk", JNumber(server.disk)>> >>)>>,
        <<"datacenter", JObject(<<
            <<"name", JString(server.dc_name)>>,
            <<"location", JObject(<<
                <<"city", JString(server.city)>>,
                <<"country", JString(server.country)>> >>)>> >>)>>,
        <<"image", IF server.image.def
                     THEN JObject(<<
                            <<"name", JString(server.image.name)>>,
                            <<"os_flavor", JString(server.image.os_flavor)>>,
                            <<"os_version", JString(server.image.os_version)>> >>)
                     ELSE JNull>>,
        <<"labels", LabelsJson(server.labels)>>,
        <<"created", JString(server.created)>> >>)

(***************************************************************************)
(* Tools and their input.  A raw input is what the caller sent; the input  *)
(* schema (zod) rejects it or turns it into the handler's params, with     *)
(* the defaults filled in.  One record shape serves all tools; a tool      *)
(* reads only the fields of its own schema.                                *)
(***************************************************************************)
ServerTools ==
    {"hetzner_list_servers", "hetzner_get_server", "hetzner_create_server",
     "hetzner_delete_server", "hetzner_power_on_server", "hetzner_power_off_server",
     "hetzner_reboot_server"}

SSHKeyTools ==
    {"hetzner_list_ssh_keys", "hetzner_get_ssh_key", "hetzner_create_ssh_key",
     "hetzner_delete_ssh_key"}

ReferenceTools ==
    {"hetzner_list_server_types", "hetzner_list_images", "hetzner_list_locations"}

Tools == ServerTools \cup SSHKeyTools \cup ReferenceTools

\* the names each register function gives to server.registerTool, in the
\* order of its calls
registerServerTools ==
    <<"hetzner_list_servers", "hetzner_get_server", "hetzner_create_server",
      "hetzner_delete_server", "hetzner_power_on_server", "hetzner_power_off_server",
      "hetzner_reboot_server">>

registerSSHKeyTools ==
    <<"hetzner_list_ssh_keys", "hetzner_get_ssh_key", "hetzner_create_ssh_key",
      "hetzner_delete_ssh_key">>

registerReferenceTools ==
    <<"hetzner_list_server_types", "hetzner_list_images", "hetzner_list_locations">>

\* the statements of index.ts that register the tools, in their order
\* (types.ts:190-193)
RegisterCalls == <<registerReferenceTools, registerSSHKeyTools, registerServerTools>>

\* the registry of a server whose module statements have all run
AllRegistered == registerReferenceTools \o registerSSHKeyTools \o registerServerTools

\* the tools whose schema has an id
IdTools ==
    {"hetzner_get_server", "hetzner_delete_server", "hetzner_power_on_server",
     "hetzner_power_off_server", "hetzner_reboot_server", "hetzner_get_ssh_key",
     "hetzner_delete_ssh_key"}

\* the tools whose schema has a response_format
FormatTools ==
    Tools \ {"hetzner_delete_server", "hetzner_power_on_server",
             "hetzner_power_off_server", "hetzner_reboot_server",
             "hetzner_delete_ssh_key"}

MARKDOWN == "markdown"

JSON == "json"

NoList == [def |-> FALSE, v |-> << >>]

SomeList(items) == [def |-> TRUE, v |-> items]

NoFlag == [def |-> FALSE, v |-> FALSE]

Flag(b) == [def |-> TRUE, v |-> b]

\* a variant of Annotations that declares every tool as hetzner_list_servers is
AnnotationsOfList(tool) ==
    [readOnlyHint |-> TRUE, destructiveHint |-> FALSE,
     idempotentHint |-> TRUE, openWorldHint |-> TRUE]

\* the annotations each registerTool call declares (api.ts:143-148, 200-205,
\* 262-267, 339-344, 374-379, 414-419, 454-459, 518-523, 582-587, 653-658;
\* ssh-keys.ts:39-44, 91-96, 141-146, 198-203)
Annotations(tool) ==
    CASE tool \in {"hetzner_list_servers", "hetzner_get_server", "hetzner_list_ssh_keys",
                   "hetzner_get_ssh_key", "hetzner_list_server_types",
                   "hetzner_list_images", "hetzner_list_locations"} ->
             [readOnlyHint |-> TRUE, destructiveHint |-> FALSE,
              idempotentHint |-> TRUE, openWorldHint |-> TRUE]
      [] tool \in {"hetzner_create_server", "hetzner_create_ssh_key"} ->
             [readOnlyHint |-> FALSE, destructiveHint |-> FALSE,
              idempotentHint |-> FALSE, openWorldHint |-> TRUE]
      [] tool = "hetzner_power_on_server" ->
             [readOnlyHint |-> FALSE, destructiveHint |-> FALSE,
              idempotentHint |-> TRUE, openWorldHint |-> TRUE]
      [] tool \in {"hetzner_delete_server", "hetzner_power_off_server",
                   "hetzner_reboot_server", "hetzner_delete_ssh_key"} ->
             [readOnlyHint |-> FALSE, destructiveHint |-> TRUE,
              idempotentHint |-> TRUE, openWorldHint |-> TRUE]

\* a raw input in which no field is given
EmptyInput ==
    [id |-> 0, response_format |-> JsUndef, label_selector |-> JsUndef,
     name |-> "", server_type |-> "", image |-> "", location |-> JsUndef,
     ssh_keys |-> NoList, labels |-> NoList, start_after_create |-> NoFlag,
     type |-> JsUndef, public_key |-> ""]

\* the characters of /^[a-zA-Z0-9-]+$/
NameChars == "abcdefghijklmnopqrstuvwxyzABCDEFGHIJKLMNOPQRSTUVWXYZ0123456789-"

IsNameChar(ch) == \E i \in 1..Len(NameChars) : SubSeq(NameChars, i, i) = ch

\* a variant of ValidServerName without the pattern
ValidServerNameAnyChar(name) == Len(name) >= 1 /\ Len(name) <= 255

\* z.string().min(1).max(255).regex(/^[a-zA-Z0-9-]+$/)
ValidServerName(name) ==
    /\ Len(name) >= 1
    /\ Len(name) <= 255
    /\ \A i \in 1..Len(name) : IsNameChar(SubSeq(name, i, i))

ImageTypes == {"system", "snapshot", "backup", "app"}

\* does the tool's inputSchema accept the raw input?
SchemaAccepts(tool, raw) ==
    /\ tool \in FormatTools =>
          (raw.response_format.def => raw.response_format.s \in {MARKDOWN, JSON})
    /\ tool \in IdTools => raw.id > 0
    /\ tool = "hetzner_create_server" =>
          /\ ValidServerName(raw.name)
          /\ Len(raw.server_type) >= 1
          /\ Len(raw.image) >= 1
    /\ tool = "hetzner_create_ssh_key" =>
          /\ Len(raw.name) >= 1
          /\ Len(raw.name) <= 255
          /\ Len(raw.public_key) >= 1
    /\ tool = "hetzner_list_images" => (raw.type.def => raw.type.s \in ImageTypes)

\* a variant of ParseInput whose response_format defaults to json
ParseInputJsonDefault(raw) ==
    [raw EXCEPT
        !.response_format = IF raw.response_format.def THEN raw.response_format.s ELSE JSON,
        !.start_after_create = IF raw.start_after_create.def THEN raw.start_after_create.v
                               ELSE TRUE]

\* the params the handler receives: the defaults of the schema are filled in
\* (response_format: markdown, start_after_create: true)
ParseInput(raw) ==
    [raw EXCEPT
        !.response_format = IF raw.response_format.def THEN raw.response_format.s ELSE MARKDOWN,
        !.start_after_create = IF raw.start_after_create.def THEN raw.start_after_create.v
                               ELSE TRUE]

(***************************************************************************)
(* The request a handler hands to makeApiRequest(endpoint, method, data,   *)
(* params).  data and params are sequences of <<key, value>>; def tells    *)
(* whether the argument was passed at all.                                 *)
(***************************************************************************)
NoArg == [def |-> FALSE, v |-> << >>]

Arg(fields) == [def |-> TRUE, v |-> fields]

HttpRequest(url, method, data, query) ==
    [url |-> url, method |-> method, data |-> data, params |-> query]

\* makeApiRequest's method parameter defaults to "GET"
DefaultMethod == "GET"

\* a variant of CreateServerBody that sends every parameter of the call
CreateServerBodyAllParams(params) ==
    << <<"name", params.name>>,
       <<"server_type", params.server_type>>,
       <<"image", params.image>>,
       <<"start_after_create", params.start_after_create>>,
       <<"location", params.location>>,
       <<"ssh_keys", params.ssh_keys.v>>,
       <<"labels", params.labels.v>>,
       <<"response_format", params.response_format>> >>

\* requestBody of hetzner_create_server (api.ts:271-286)
CreateServerBody(params) ==
    << <<"name", params.name>>,
       <<"server_type", params.server_type>>,
       <<"image", params.image>>,
       <<"start_after_create", params.start_after_create>> >>
    \o (IF Truthy(params.location) THEN << <<"location", params.location.s>> >> ELSE << >>)
    \o (IF params.ssh_keys.def /\ Len(params.ssh_keys.v) > 0
          THEN << <<"ssh_keys", params.ssh_keys.v>> >> ELSE << >>)
    \o (IF params.labels.def THEN << <<"labels", params.labels.v>> >> ELSE << >>)

\* requestBody of hetzner_create_ssh_key (ssh-keys.ts:150-156)
CreateSSHKeyBody(params) ==
    << <<"name", params.name>>, <<"public_key", params.public_key>> >>
    \o (IF params.labels.def THEN << <<"labels", params.labels.v>> >> ELSE << >>)

\* a variant of RequestOf in which power-on and reboot post to each other's
\* endpoint
RequestOfSwapped(tool, params) ==
    LET id == ToString(params.id)
    IN  CASE tool = "hetzner_list_servers" ->
               HttpRequest("/servers", "GET", NoArg,
                   Arg(IF Truthy(params.label_selector)
                         THEN << <<"label_selector", params.label_selector.s>> >>
                         ELSE << >>))
          [] tool = "hetzner_get_server" ->
               HttpRequest("/servers/" \o id, DefaultMethod, NoArg, NoArg)
          [] tool = "hetzner_create_server" ->
               HttpRequest("/servers", "POST", Arg(CreateServerBody(params)), NoArg)
          [] tool = "hetzner_delete_server" ->
               HttpRequest("/servers/" \o id, "DELETE", NoArg, NoArg)
          [] tool = "hetzner_power_on_server" ->
               HttpRequest("/servers/" \o id \o "/actions/reboot", "POST", NoArg, NoArg)
          [] tool = "hetzner_power_off_server" ->
               HttpRequest("/servers/" \o id \o "/actions/poweroff", "POST", NoArg, NoArg)
          [] tool = "hetzner_reboot_server" ->
               HttpRequest("/servers/" \o id \o "/actions/poweron", "POST", NoArg, NoArg)
          [] tool = "hetzner_list_ssh_keys" ->
               HttpRequest("/ssh_keys", DefaultMethod, NoArg, NoArg)
          [] tool = "hetzner_get_ssh_key" ->
               HttpRequest("/ssh_keys/" \o id, DefaultMethod, NoArg, NoArg)
          [] tool = "hetzner_create_ssh_key" ->
               HttpRequest("/ssh_keys", "POST", Arg(CreateSSHKeyBody(params)), NoArg)
          [] tool = "hetzner_delete_ssh_key" ->
               HttpRequest("/ssh_keys/" \o id, "DELETE", NoArg, NoArg)
          [] tool = "hetzner_list_server_types" ->
               HttpRequest("/server_types", DefaultMethod, NoArg, NoArg)
          [] tool = "hetzner_list_images" ->
               HttpRequest("/images", "GET", NoArg,
                   Arg(<< <<"type", IF Truthy(params.type) THEN params.type.s ELSE "system">> >>))
          [] tool = "hetzner_list_locations" ->
               HttpRequest("/locations", DefaultMethod, NoArg, NoArg)

\* the arguments of the handler's one makeApiRequest call
RequestOf(tool, params) ==
    LET id == ToString(params.id)
    IN  CASE tool = "hetzner_list_servers" ->
               HttpRequest("/servers", "GET", NoArg,
                   Arg(IF Truthy(params.label_selector)
                         THEN << <<"label_selector", params.label_selector.s>> >>
                         ELSE << >>))
          [] tool = "hetzner_get_server" ->
               HttpRequest("/servers/" \o id, DefaultMethod, NoArg, NoArg)
          [] tool = "hetzner_create_server" ->
               HttpRequest("/servers", "POST", Arg(CreateServerBody(params)), NoArg)
          [] tool = "hetzner_delete_server" ->
               HttpRequest("/servers/" \o id, "DELETE", NoArg, NoArg)
          [] tool = "hetzner_power_on_server" ->
               HttpRequest("/servers/" \o id \o "/actions/poweron", "POST", NoArg, NoArg)
          [] tool = "hetzner_power_off_server" ->
               HttpRequest("/servers/" \o id \o "/actions/poweroff", "POST", NoArg, NoArg)
          [] tool = "hetzner_reboot_server" ->
               HttpRequest("/servers/" \o id \o "/actions/reboot", "POST", NoArg, NoArg)
          [] tool = "hetzner_list_ssh_keys" ->
               HttpRequest("/ssh_keys", DefaultMethod, NoArg, NoArg)
          [] tool = "hetzner_get_ssh_key" ->
               HttpRequest("/ssh_keys/" \o id, DefaultMethod, NoArg, NoArg)
          [] tool = "hetzner_create_ssh_key" ->
               HttpRequest("/ssh_keys", "POST", Arg(CreateSSHKeyBody(params)), NoArg)
          [] tool = "hetzner_delete_ssh_key" ->
               HttpRequest("/ssh_keys/" \o id, "DELETE", NoArg, NoArg)
          [] tool = "hetzner_list_server_types" ->
               HttpRequest("/server_types", DefaultMethod, NoArg, NoArg)
          [] tool = "hetzner_list_images" ->
               HttpRequest("/images", "GET", NoArg,
                   Arg(<< <<"type", IF Truthy(params.type) THEN params.type.s ELSE "system">> >>))
          [] tool = "hetzner_list_locations" ->
               HttpRequest("/locations", DefaultMethod, NoArg, NoArg)

(***************************************************************************)
(* SSH keys, server types, images, locations (types.ts) and how the        *)
(* handlers render them.                                                   *)
(***************************************************************************)
KeyLaptop ==
    [id |-> 11, name |-> "my-laptop", fingerprint |-> "b7:2f:30:a0:2f:6c",
     public_key |-> "ssh-ed25519 AAAAC3Nz laptop",
     labels |-> << >>, created |-> "2024-01-15T10:30:00+00:00"]

KeyDeploy ==
    [id |-> 12, name |-> "deploy", fingerprint |-> "0a:1b:2c:3d:4e:5f",
     public_key |-> "ssh-rsa AAAAB3Nz deploy",
     labels |-> << <<"env", "prod">> >>, created |-> "2024-03-01T08:00:00+00:00"]

SSHKeys == {KeyLaptop, KeyDeploy}

\* formatSSHKey (ssh-keys.ts:14-24): the lines before the join
formatSSHKeyLines(key) ==
    << "## " \o key.name \o " (ID: " \o ToString(key.id) \o ")",
       "- **Fingerprint**: " \o key.fingerprint,
       "- **Created**: " \o toLocaleString(key.created) >>
    \o (IF Len(key.labels) > 0
          THEN << "- **Labels**: " \o formatLabels(key.labels) >>
          ELSE << >>)

formatSSHKey(key) == Join(formatSSHKeyLines(key), "\n")

SSHKeyJson(key) ==
    JObject(<<
        <<"id", JNumber(key.id)>>,
        <<"name", JString(key.name)>>,
        <<"fingerprint", JString(key.fingerprint)>>,
        <<"public_key", JString(key.public_key)>>,
        <<"labels", LabelsJson(key.labels)>>,
        <<"created", JString(key.created)>> >>)

TypeCx22 ==
    [name |-> "cx22", description |-> "CX22", cores |-> 2, cpu_type |-> "shared",
     memory |-> 4, disk |-> 40, architecture |-> "x86",
     prices |-> << [location |-> "fsn1", monthly |-> "4.5100", hourly |-> "0.0070"],
                   [location |-> "hel1", monthly |-> "4.9900", hourly |-> "0.0080"] >>]

TypeCax11 ==
    [name |-> "cax11", description |-> "CAX11", cores |-> 2, cpu_type |-> "shared",
     memory |-> 4, disk |-> 40, architecture |-> "arm",
     prices |-> << >>]

ServerTypes == {TypeCx22, TypeCax11}

\* the lines of one server type (api.ts:538-548)
formatServerTypeLines(st) ==
    << "## " \o st.name,
       "- **Description**: " \o st.description,
       "- **CPU**: " \o ToString(st.cores) \o " cores (" \o st.cpu_type \o ")",
       "- **Memory**: " \o ToString(st.memory) \o " GB",
       "- **Disk**: " \o ToString(st.disk) \o " GB",
       "- **Architecture**: " \o st.architecture >>
    \o (IF Len(st.prices) > 0
          THEN << "- **Price**: €" \o st.prices[1].monthly \o "/month (€"
                    \o st.prices[1].hourly \o "/hour)" >>
          ELSE << >>)
    \o << "" >>

ServerTypeJson(st) ==
    JObject(<<
        <<"name", JString(st.name)>>,
        <<"description", JString(st.description)>>,
        <<"cores", JNumber(st.cores)>>,
        <<"memory", JNumber(st.memory)>>,
        <<"disk", JNumber(st.disk)>>,
        <<"prices", JArray([i \in 1..Len(st.prices) |->
            JObject(<<
                <<"location", JString(st.prices[i].location)>>,
                <<"price_hourly", JObject(<< <<"gross", JString(st.prices[i].hourly)>> >>)>>,
                <<"price_monthly", JObject(<< <<"gross", JString(st.prices[i].monthly)>> >>)>>
            >>)])>>,
        <<"architecture", JString(st.architecture)>>,
        <<"cpu_type", JString(st.cpu_type)>> >>)

ImageUbuntu ==
    [name |-> "ubuntu-24.04", description |-> "Ubuntu 24.04", os_flavor |-> "ubuntu",
     os_version |-> "24.04", type |-> "system", status |-> "available",
     architecture |-> "x86"]

ImageDebian ==
    [name |-> "debian-12", description |-> "Debian 12", os_flavor |-> "debian",
     os_version |-> "12", type |-> "system", status |-> "available",
     architecture |-> "arm"]

ImageOld ==
    [name |-> "ubuntu-18.04", description |-> "Ubuntu 18.04", os_flavor |-> "ubuntu",
     os_version |-> "18.04", type |-> "system", status |-> "unavailable",
     architecture |-> "x86"]

ImageSnapshot ==
    [name |-> "", description |-> "nightly", os_flavor |-> "",
     os_version |-> "", type |-> "snapshot", status |-> "available",
     architecture |-> "x86"]

ImageBuilding ==
    [name |-> "", description |-> "in progress", os_flavor |-> "debian",
     os_version |-> "12", type |-> "snapshot", status |-> "creating",
     architecture |-> "x86"]

Images == {ImageUbuntu, ImageDebian, ImageOld, ImageSnapshot, ImageBuilding}

ImageJson(img) ==
    JObject(<<
        <<"name", JString(img.name)>>,
        <<"description", JString(img.description)>>,
        <<"os_flavor", JString(img.os_flavor)>>,
        <<"os_version", JString(img.os_version)>>,
        <<"type", JString(img.type)>>,
        <<"status", JString(img.status)>>,
        <<"architecture", JString(img.architecture)>> >>)

\* a variant of AvailableImages that keeps every image of the response
AvailableImagesUnfiltered(images) == images

\* data.images.filter(img => img.status === "available")
AvailableImages(images) == SelectSeq(images, LAMBDA img : img.status = "available")

\* img.os_flavor || "other"
FlavorOf(img) == IF img.os_flavor # "" THEN img.os_flavor ELSE "other"

RECURSIVE FlavorKeys(_, _)
\* the keys of byFlavor in insertion order: each flavor at its first image
FlavorKeys(images, seen) ==
    IF Len(images) = 0 THEN << >>
    ELSE LET f == FlavorOf(Head(images))
         IN  IF f \in seen
               THEN FlavorKeys(Tail(images), seen)
               ELSE <<f>> \o FlavorKeys(Tail(images), seen \cup {f})

LowerCase == "abcdefghijklmnopqrstuvwxyz"

UpperCase == "ABCDEFGHIJKLMNOPQRSTUVWXYZ"

\* ch.toUpperCase() for one character
ToUpperChar(ch) ==
    IF \E i \in 1..Len(LowerCase) : SubSeq(LowerCase, i, i) = ch
      THEN LET i == CHOOSE i \in 1..Len(LowerCase) : SubSeq(LowerCase, i, i) = ch
           IN  SubSeq(UpperCase, i, i)
      ELSE ch

\* flavor.charAt(0).toUpperCase() + flavor.slice(1)
Capitalize(str) ==
    IF Len(str) = 0 THEN "" ELSE ToUpperChar(SubSeq(str, 1, 1)) \o SubSeq(str, 2, Len(str))

\* the lines of one flavor group (api.ts:617-623)
formatFlavorLines(flavor, images) ==
    LET imgs == SelectSeq(images, LAMBDA img : FlavorOf(img) = flavor)
    IN  << "## " \o Capitalize(flavor) >>
        \o [i \in 1..Len(imgs) |->
              "- **" \o imgs[i].name \o "** - " \o imgs[i].description
                \o " (" \o imgs[i].architecture \o ")"]
        \o << "" >>

LocationFsn ==
    [name |-> "fsn1", city |-> "Falkenstein", country |-> "DE",
     description |-> "Falkenstein DC Park 1", network_zone |-> "eu-central"]

LocationAsh ==
    [name |-> "ash", city |-> "Ashburn, VA", country |-> "US",
     description |-> "Ashburn, VA", network_zone |-> "us-east"]

Locations == {LocationFsn, LocationAsh}

\* the lines of one location (api.ts:673-677)
formatLocationLines(loc) ==
    << "## " \o loc.name,
       "- **City**: " \o loc.city \o ", " \o loc.country,
       "- **Description**: " \o loc.description,
       "- **Network Zone**: " \o loc.network_zone,
       "" >>

LocationJson(loc) ==
    JObject(<<
        <<"name", JString(loc.name)>>,
        <<"description", JString(loc.description)>>,
        <<"country", JString(loc.country)>>,
        <<"city", JString(loc.city)>>,
        <<"network_zone", JString(loc.network_zone)>> >>)

RECURSIVE Flatten(_)
\* the concatenation of a sequence of sequences
Flatten(seqs) == IF Len(seqs) = 0 THEN << >> ELSE Head(seqs) \o Flatten(Tail(seqs))

(***************************************************************************)
(* What a handler returns.  isError = FALSE stands for a result without    *)
(* the isError property.                                                   *)
(***************************************************************************)
TextResult(text) ==
    [content |-> << [type |-> "text", text |-> text] >>, isError |-> FALSE]

ErrorResult(text) ==
    [content |-> << [type |-> "text", text |-> text] >>, isError |-> TRUE]

NoServersText == "No servers found. Use 'hetzner_create_server' to create one."

NoSSHKeysText == "No SSH keys found. Use 'hetzner_create_ssh_key' to add one."

PasswordLabel == "**Root Password**: '"

\* the source text starts with a warning sign (U+26A0), written here as (!)
PasswordWarning == "(!) Save this password! It will not be shown again."

NoPasswordLine == "SSH key authentication is configured. No root password was generated."

ProvisioningLine ==
    "The server is being provisioned. Use 'hetzner_get_server' to check its status."

\* a variant of ListServersText without the test for the empty list
ListServersTextNoHint(params, data) ==
    LET servers == data.servers
    IN  IF params.response_format = JSON
          THEN JSONstringify(JArray([i \in 1..Len(servers) |-> ServerJson(servers[i])]))
        ELSE Join(<< "# Servers", "", "Found " \o ToString(Len(servers)) \o " server(s):", "" >>
                  \o Flatten([i \in 1..Len(servers) |-> << formatServer(servers[i]), "" >>]),
                  "\n")

\* hetzner_list_servers after the response (api.ts:158-180)
ListServersText(params, data) ==
    LET servers == data.servers
    IN  IF params.response_format = JSON
          THEN JSONstringify(JArray([i \in 1..Len(servers) |-> ServerJson(servers[i])]))
        ELSE IF Len(servers) = 0
          THEN NoServersText
        ELSE Join(<< "# Servers", "", "Found " \o ToString(Len(servers)) \o " server(s):", "" >>
                  \o Flatten([i \in 1..Len(servers) |-> << formatServer(servers[i]), "" >>]),
                  "\n")

\* hetzner_get_server after the response (api.ts:210-221)
GetServerText(params, data) ==
    LET srv == data.server
    IN  IF params.response_format = JSON
          THEN JSONstringify(ServerJson(srv))
          ELSE Join(<< "# Server Details", "", formatServer(srv) >>, "\n")

\* a variant of CreateServerText that shows every root_password that is not
\* null, the empty one included
CreateServerTextNotNull(params, data) ==
    LET srv == data.server
        rootPassword == data.root_password
    IN  IF params.response_format = JSON
          THEN JSONstringify(JObject(<< <<"server", ServerJson(srv)>>,
                                        <<"root_password", JOptString(rootPassword)>> >>))
          ELSE Join(<< "# Server Created", "", formatServer(srv), "" >>
                    \o (IF rootPassword.def
                          THEN << PasswordLabel \o rootPassword.s \o "'", "", PasswordWarning >>
                          ELSE << NoPasswordLine >>)
                    \o << "", ProvisioningLine >>,
                    "\n")

\* a variant of CreateServerText that decides on the SSH keys of the input
CreateServerTextByKeys(params, data) ==
    LET srv == data.server
        rootPassword == data.root_password
    IN  IF params.response_format = JSON
          THEN JSONstringify(JObject(<< <<"server", ServerJson(srv)>>,
                                        <<"root_password", JOptString(rootPassword)>> >>))
          ELSE Join(<< "# Server Created", "", formatServer(srv), "" >>
                    \o (IF ~(params.ssh_keys.def /\ Len(params.ssh_keys.v) > 0)
                          THEN << PasswordLabel \o rootPassword.s \o "'", "", PasswordWarning >>
                          ELSE << NoPasswordLine >>)
                    \o << "", ProvisioningLine >>,
                    "\n")

\* hetzner_create_server after the response (api.ts:289-318)
CreateServerText(params, data) ==
    LET srv == data.server
        rootPassword == data.root_password
    IN  IF params.response_format = JSON
          THEN JSONstringify(JObject(<< <<"server", ServerJson(srv)>>,
                                        <<"root_password", JOptString(rootPassword)>> >>))
          ELSE Join(<< "# Server Created", "", formatServer(srv), "" >>
                    \o (IF Truthy(rootPassword)
                          THEN << PasswordLabel \o rootPassword.s \o "'", "", PasswordWarning >>
                          ELSE << NoPasswordLine >>)
                    \o << "", ProvisioningLine >>,
                    "\n")

\* the four handlers that report an Action (api.ts:348-355, 383-393, 423-433, 463-473)
ActionText(tool, params, data) ==
    LET verb == CASE tool = "hetzner_delete_server" -> "being deleted"
                  [] tool = "hetzner_power_on_server" -> "powering on"
                  [] tool = "hetzner_power_off_server" -> "powering off"
                  [] tool = "hetzner_reboot_server" -> "rebooting"
    IN  "Server " \o ToString(params.id) \o " is " \o verb \o ". Action status: "
            \o data.action.status

\* hetzner_list_ssh_keys after the response (ssh-keys.ts:49-71)
ListSSHKeysText(params, data) ==
    LET keys == data.ssh_keys
    IN  IF params.response_format = JSON
          THEN JSONstringify(JArray([i \in 1..Len(keys) |-> SSHKeyJson(keys[i])]))
        ELSE IF Len(keys) = 0
          THEN NoSSHKeysText
        ELSE Join(<< "# SSH Keys", "", "Found " \o ToString(Len(keys)) \o " SSH key(s):", "" >>
                  \o Flatten([i \in 1..Len(keys) |-> << formatSSHKey(keys[i]), "" >>]),
                  "\n")

\* hetzner_get_ssh_key after the response (ssh-keys.ts:101-112)
GetSSHKeyText(params, data) ==
    LET key == data.ssh_key
    IN  IF params.response_format = JSON
          THEN JSONstringify(SSHKeyJson(key))
          ELSE Join(<< "# SSH Key Details", "", formatSSHKey(key), "", "**Public Key**:",
                       "'''", key.public_key, "'''" >>, "\n")

\* hetzner_create_ssh_key after the response (ssh-keys.ts:159-176)
CreateSSHKeyText(params, data) ==
    LET key == data.ssh_key
    IN  IF params.response_format = JSON
          THEN JSONstringify(SSHKeyJson(key))
          ELSE Join(<< "# SSH Key Created", "", formatSSHKey(key), "",
                       "You can now use this SSH key when creating servers by specifying its name or ID." >>,
                    "\n")

\* hetzner_delete_ssh_key after the response (ssh-keys.ts:209-211)
DeleteSSHKeyText(params) == "SSH key " \o ToString(params.id) \o " has been deleted."

\* hetzner_list_server_types after the response (api.ts:528-553)
ListServerTypesText(params, data) ==
    LET serverTypes == data.server_types
    IN  IF params.response_format = JSON
          THEN JSONstringify(JArray([i \in 1..Len(serverTypes) |->
                                        ServerTypeJson(serverTypes[i])]))
          ELSE Join(<< "# Available Server Types", "" >>
                    \o Flatten([i \in 1..Len(serverTypes) |->
                                  formatServerTypeLines(serverTypes[i])]),
                    "\n")

\* hetzner_list_images after the response (api.ts:599-627)
ListImagesText(params, data) ==
    LET images == AvailableImages(data.images)
        flavors == FlavorKeys(images, {})
    IN  IF params.response_format = JSON
          THEN JSONstringify(JArray([i \in 1..Len(images) |-> ImageJson(images[i])]))
          ELSE Join(<< "# Available Images", "" >>
                    \o Flatten([i \in 1..Len(flavors) |->
                                  formatFlavorLines(flavors[i], images)]),
                    "\n")

\* hetzner_list_locations after the response (api.ts:663-682)
ListLocationsText(params, data) ==
    LET locations == data.locations
    IN  IF params.response_format = JSON
          THEN JSONstringify(JArray([i \in 1..Len(locations) |-> LocationJson(locations[i])]))
          ELSE Join(<< "# Available Locations", "" >>
                    \o Flatten([i \in 1..Len(locations) |-> formatLocationLines(locations[i])]),
                    "\n")

ActionTools ==
    {"hetzner_delete_server", "hetzner_power_on_server", "hetzner_power_off_server",
     "hetzner_reboot_server"}

\* the text a handler returns when makeApiRequest resolved with data
SuccessText(tool, params, data) ==
    CASE tool = "hetzner_list_servers" -> ListServersText(params, data)
      [] tool = "hetzner_get_server" -> GetServerText(params, data)
      [] tool = "hetzner_create_server" -> CreateServerText(params, data)
      [] tool \in ActionTools -> ActionText(tool, params, data)
      [] tool = "hetzner_list_ssh_keys" -> ListSSHKeysText(params, data)
      [] tool = "hetzner_get_ssh_key" -> GetSSHKeyText(params, data)
      [] tool = "hetzner_create_ssh_key" -> CreateSSHKeyText(params, data)
      [] tool = "hetzner_delete_ssh_key" -> DeleteSSHKeyText(params)
      [] tool = "hetzner_list_server_types" -> ListServerTypesText(params, data)
      [] tool = "hetzner_list_images" -> ListImagesText(params, data)
      [] tool = "hetzner_list_locations" -> ListLocationsText(params, data)

(***************************************************************************)
(* Bounds of the model.                                                    *)
(***************************************************************************)
\* invocations that may be in progress at the same time
MaxCalls == 2

\* ids the caller may name are 1..MaxId
MaxId == 2

\* the longest list in a provider response
MaxList == 2

\* a bound on the clients created; the program creates at most one
MaxClients == 3

Calls == 1..MaxCalls

(***************************************************************************)
(* What the caller may send (raw inputs) and what the provider may answer. *)
(***************************************************************************)
Formats == {JsUndef, JsStr(MARKDOWN), JsStr(JSON), JsStr("xml")}

FormatInputs == { [EmptyInput EXCEPT !.response_format = f] : f \in Formats }

\* 0 is an id the schema rejects
IdInputs(base) == { [r EXCEPT !.id = i] : r \in base, i \in 0..MaxId }

LabelInputs == {NoList, SomeList(<< <<"env", "prod">> >>)}

\* names at the limits of the schema: 255 and 256 characters, characters
\* outside the pattern, upper case and digits
CreateServerInputs ==
    LET a64 == "aaaaaaaaaaaaaaaaaaaaaaaaaaaaaaaaaaaaaaaaaaaaaaaaaaaaaaaaaaaaaaaa"
        a255 == a64 \o a64 \o a64 \o SubSeq(a64, 1, 63)
        a256 == a64 \o a64 \o a64 \o a64
    IN  { [r EXCEPT !.name = n, !.server_type = "cx22", !.image = "ubuntu-24.04",
                    !.location = l, !.ssh_keys = k, !.labels = lb,
                    !.start_after_create = st] :
            r \in FormatInputs,
            n \in {"my-app", "my app", ""},
            l \in {JsUndef, JsStr(""), JsStr("fsn1")},
            k \in {NoList, SomeList(<< >>), SomeList(<<"my-laptop">>)},
            lb \in LabelInputs \cup {SomeList(<< >>)},
            st \in {NoFlag, Flag(FALSE), Flag(TRUE)} }
        \cup { [EmptyInput EXCEPT !.name = n, !.server_type = "cx22",
                                  !.image = "ubuntu-24.04"] :
                  n \in {a255, a256, "my_app", "web.example", "-", "Web-01", "7"} }

CreateSSHKeyInputs ==
    { [r EXCEPT !.name = n, !.public_key = pk, !.labels = lb] :
        r \in FormatInputs,
        n \in {"my-laptop", ""},
        pk \in {"ssh-ed25519 AAAAC3Nz laptop", ""},
        lb \in LabelInputs }

\* the raw inputs a caller may send to a tool
Inputs(tool) ==
    CASE tool = "hetzner_list_servers" ->
           { [r EXCEPT !.label_selector = ls] :
               r \in FormatInputs, ls \in {JsUndef, JsStr(""), JsStr("env=prod")} }
      [] tool \in {"hetzner_get_server", "hetzner_get_ssh_key"} -> IdInputs(FormatInputs)
      [] tool \in ActionTools \cup {"hetzner_delete_ssh_key"} -> IdInputs({EmptyInput})
      [] tool = "hetzner_create_server" -> CreateServerInputs
      [] tool = "hetzner_create_ssh_key" -> CreateSSHKeyInputs
      [] tool = "hetzner_list_images" ->
           { [r EXCEPT !.type = ty] :
               r \in FormatInputs,
               ty \in {JsUndef, JsStr("system"), JsStr("snapshot"), JsStr("iso")} }
      [] OTHER -> FormatInputs

\* the sequences of at most n distinct elements of S
RECURSIVE SeqsUpTo(_, _)
SeqsUpTo(S, n) ==
    IF n = 0 THEN { << >> }
    ELSE LET shorter == SeqsUpTo(S, n - 1)
         IN  shorter \cup
             { Append(q, x) : q \in { r \in shorter : Len(r) = n - 1 }, x \in S }

DistinctSeqs(S, n) ==
    { q \in SeqsUpTo(S, n) : \A i, j \in 1..Len(q) : i # j => q[i] # q[j] }

ActionStatuses == {"running", "success", "error"}

RootPasswords == {JsUndef, JsStr(""), JsStr("s3cr3tPw")}

\* the bodies of a successful response to the tool's request
ResponseData(tool) ==
    CASE tool = "hetzner_list_servers" ->
           { [servers |-> q] : q \in DistinctSeqs(Servers, MaxList) }
      [] tool = "hetzner_get_server" -> { [server |-> x] : x \in Servers }
      [] tool = "hetzner_create_server" ->
           { [server |-> x, root_password |-> pw, action |-> [status |-> "running"]] :
               x \in {ServerNew, ServerWeb}, pw \in RootPasswords }
      [] tool \in ActionTools -> { [action |-> [status |-> a]] : a \in ActionStatuses }
      [] tool = "hetzner_list_ssh_keys" ->
           { [ssh_keys |-> q] : q \in DistinctSeqs(SSHKeys, MaxList) }
      [] tool \in {"hetzner_get_ssh_key", "hetzner_create_ssh_key"} ->
           { [ssh_key |-> x] : x \in SSHKeys }
      [] tool = "hetzner_delete_ssh_key" -> { [empty |-> TRUE] }
      [] tool = "hetzner_list_server_types" ->
           { [server_types |-> q] : q \in DistinctSeqs(ServerTypes, MaxList) }
      [] tool = "hetzner_list_images" ->
           { [images |-> q] : q \in DistinctSeqs(Images, MaxList) }
      [] tool = "hetzner_list_locations" ->
           { [locations |-> q] : q \in DistinctSeqs(Locations, MaxList) }

NoData == [empty |-> TRUE]

\* a successful answer whose body is the JSON value null: response.data is null
NullData == [null |-> TRUE]

NoError ==
    [cls |-> "none", hasResponse |-> FALSE, status |-> 0, body |-> NoBody,
     code |-> JsUndef, message |-> ""]

\* how client.request ends: it resolves with data or rejects with error
Resolved(data) == [ok |-> TRUE, data |-> data, error |-> NoError]

Rejected(error) == [ok |-> FALSE, data |-> NoData, error |-> error]

NoOutcome == [ok |-> FALSE, data |-> NoData, error |-> NoError]

\* the failures of the HTTP call the system is run against: every status with
\* and without a provider detail, every network failure, a plain Error and a
\* value that is no Error
Failures ==
    { e \in AxiosResponseErrors :
        /\ e.body \in {NoBody, [kind |-> "error", message |-> JsStr("server is locked")]}
        /\ e.code = JsStr("ERR_BAD_REQUEST")
        /\ e.message = "Request failed" }
    \cup { e \in AxiosNetworkErrors : e.message = "Network Error" /\ e.code.def }
    \cup { e \in PlainErrors : e.message = "Unexpected token < in JSON" }
    \cup { e \in NonErrors : e.message = "" /\ ~e.code.def }

Outcomes(tool) ==
    { Resolved(d) : d \in ResponseData(tool) } \cup { Rejected(e) : e \in Failures }

(***************************************************************************)
(* The transport client (api.ts:4-42)                                      *)
(***************************************************************************)
API_BASE_URL == "https://api.hetzner.cloud/v1"

RequestTimeout == 30000

\* apiClient = null
NoClient == [def |-> FALSE, baseURL |-> "", timeout |-> 0, authorization |-> "", serial |-> 0]

\* axios.create({...}) (api.ts:15-23); serial tells the instances apart
CreateClient(token, serial) ==
    [def |-> TRUE, baseURL |-> API_BASE_URL, timeout |-> RequestTimeout,
     authorization |-> "Bearer " \o token, serial |-> serial]

\* a variant of getApiClient without the test of the module variable: every
\* call reads the credential and creates a client
getApiClientFresh(client, token, created) ==
    IF ~Truthy(token)
      THEN [threw |-> TRUE, value |-> ConfigError, apiClient |-> client,
            readToken |-> TRUE]
      ELSE LET new == CreateClient(token.s, created + 1)
           IN  [threw |-> FALSE, value |-> new, apiClient |-> new, readToken |-> TRUE]

\* getApiClient() with the module variable at client, the environment's
\* HETZNER_API_TOKEN at token, and created clients made so far: how the call
\* ends, the module variable afterwards, whether the credential was read
getApiClient(client, token, created) ==
    IF ~client.def
      THEN IF ~Truthy(token)
             THEN [threw |-> TRUE, value |-> ConfigError, apiClient |-> client,
                   readToken |-> TRUE]
             ELSE LET new == CreateClient(token.s, created + 1)
                  IN  [threw |-> FALSE, value |-> new, apiClient |-> new,
                       readToken |-> TRUE]
      ELSE [threw |-> FALSE, value |-> client, apiClient |-> client, readToken |-> FALSE]

(***************************************************************************)
(* The handlers: try { ... await makeApiRequest(...) ... } catch (error)   *)
(* { return { content: [text handleApiError(error)], isError: true } }     *)
(***************************************************************************)
\* a variant of the catch block that handles Axios errors and rethrows the rest
CatchAxiosOnly(error) ==
    IF error.cls # "AxiosError"
      THEN Threw(error)
      ELSE LET m == handleApiError(error)
           IN  IF m.threw THEN Threw(m.value) ELSE Returned(ErrorResult(m.value))

\* a variant of the catch block that returns a heading before the message
CatchWithHeading(error) ==
    LET m == handleApiError(error)
    IN  IF m.threw THEN Threw(m.value)
        ELSE Returned([content |-> << [type |-> "text", text |-> "# Servers"],
                                      [type |-> "text", text |-> m.value] >>,
                       isError |-> TRUE])

\* a variant of the catch block that returns the message without the flag
CatchWithoutFlag(error) ==
    LET m == handleApiError(error)
    IN  IF m.threw THEN Threw(m.value) ELSE Returned(TextResult(m.value))

\* the catch block
CatchBlock(error) ==
    LET m == handleApiError(error)
    IN  IF m.threw THEN Threw(m.value) ELSE Returned(ErrorResult(m.value))

\* an invocation that has not been made
IdleCall ==
    [pc |-> "idle", tool |-> "", raw |-> EmptyInput, params |-> ParseInput(EmptyInput),
     request |-> HttpRequest("", "", NoArg, NoArg), sent |-> 0, client |-> NoClient,
     outcome |-> NoOutcome, escaped |-> NoError, result |-> TextResult("")]

\* how the handler ends, as a call record: it returned a result or an
\* exception escaped it
Finish(call, completion) ==
    IF completion.threw
      THEN [call EXCEPT !.pc = "threw", !.escaped = completion.value]
      ELSE [call EXCEPT !.pc = "returned", !.result = completion.value]

\* a variant of Start that calls makeApiRequest before the try block
StartOutsideTry(tool, raw, g) ==
    LET params == ParseInput(raw)
        call == [IdleCall EXCEPT !.tool = tool, !.raw = raw, !.params = params]
    IN  IF g.threw
          THEN Finish(call, Threw(g.value))
          ELSE [call EXCEPT !.pc = "awaiting", !.request = RequestOf(tool, params),
                            !.sent = 1, !.client = g.value]

\* the handler from its start to the await of client.request: the request is
\* built, makeApiRequest calls getApiClient (g is how that call ended) and
\* either the request is sent or the exception reaches the catch block
Start(tool, raw, g) ==
    LET params == ParseInput(raw)
        call == [IdleCall EXCEPT !.tool = tool, !.raw = raw, !.params = params]
    IN  IF g.threw
          THEN Finish(call, CatchBlock(g.value))
          ELSE [call EXCEPT !.pc = "awaiting", !.request = RequestOf(tool, params),
                            !.sent = 1, !.client = g.value]

\* the try block from the end of the await: every handler but
\* hetzner_delete_ssh_key reads a property of data first (data.servers,
\* data.action, ...), which throws a TypeError when data is null; the
\* exception reaches the catch block
AfterAwait(tool, params, data) ==
    IF data = NullData /\ tool # "hetzner_delete_ssh_key"
      THEN CatchBlock(TypeError)
      ELSE Returned(TextResult(SuccessText(tool, params, data)))

\* a variant of Resume that sends the request once more after a 429, a 503 or
\* a timeout
ResumeRetry(call, outcome) ==
    LET done == [call EXCEPT !.outcome = outcome]
        transient ==
            /\ ~outcome.ok
            /\ outcome.error.cls = "AxiosError"
            /\ \/ outcome.error.hasResponse /\ outcome.error.status \in {429, 503}
               \/ ~outcome.error.hasResponse /\ outcome.error.code = JsStr("ECONNABORTED")
    IN  IF transient /\ call.sent < 2
          THEN [done EXCEPT !.pc = "awaiting", !.sent = call.sent + 1]
        ELSE IF outcome.ok
          THEN Finish(done, AfterAwait(call.tool, call.params, outcome.data))
          ELSE Finish(done, CatchBlock(outcome.error))

\* a variant of Resume that polls an Action that is still running
ResumePolling(call, outcome) ==
    LET done == [call EXCEPT !.outcome = outcome]
    IN  IF outcome.ok /\ call.tool \in ActionTools
           /\ outcome.data.action.status = "running" /\ call.sent < 2
          THEN [done EXCEPT !.pc = "awaiting", !.sent = call.sent + 1,
                            !.request = HttpRequest("/actions/1", "GET", NoArg, NoArg)]
        ELSE IF outcome.ok
          THEN Finish(done, AfterAwait(call.tool, call.params, outcome.data))
          ELSE Finish(done, CatchBlock(outcome.error))

\* the handler from the end of its await to its return
Resume(call, outcome) ==
    LET done == [call EXCEPT !.outcome = outcome]
    IN  IF outcome.ok
          THEN Finish(done, AfterAwait(call.tool, call.params, outcome.data))
          ELSE Finish(done, CatchBlock(outcome.error))

(***************************************************************************)
(* State                                                                   *)
(***************************************************************************)
VARIABLES
    mainPc,         \* index.ts: "load" (the module statements run), "start" (main
                    \*   not yet run), "connected" (server.connect done), "exited"
    registered,     \* the names given to server.registerTool so far, in call order
    exitCode,       \* the arguments of process.exit so far: << >> while the process runs
    env,            \* process.env.HETZNER_API_TOKEN, an optional string
    apiClient,      \* the module variable apiClient of api.ts
    clientsCreated, \* how many times axios.create has run
    tokenRead,      \* getApiClient has read the credential (api.ts:10)
    clientRequested, \* getApiClient has been called
    calls,          \* the tool invocations in progress, by slot
    thrown,         \* handleApiError on its own: the value handed to it
    message,        \*   how the call ended
    npc             \*   "in": not yet called; "out": the call has ended

vars ==
    <<mainPc, registered, exitCode, env, apiClient, clientsCreated, tokenRead,
      clientRequested, calls, thrown, message, npc>>

sysvars ==
    <<mainPc, registered, exitCode, env, apiClient, clientsCreated, tokenRead,
      clientRequested, calls>>

nvars == <<thrown, message, npc>>

EnvValues == {JsUndef, JsStr(""), JsStr("tokA"), JsStr("tokB")}

NormalizerIdle ==
    /\ thrown = NoError
    /\ message = Returned("")
    /\ npc = "idle"

(***************************************************************************)
(* Actions                                                                 *)
(***************************************************************************)
\* the module statements of index.ts (types.ts:184-193): the server is
\* constructed with an empty registry, then the three register functions run
\* one after the other; main() is called after the last of them
Load ==
    /\ mainPc = "load"
    /\ \E k \in 1..Len(RegisterCalls) :
          /\ registered = Flatten(SubSeq(RegisterCalls, 1, k - 1))
          /\ registered' = registered \o RegisterCalls[k]
          /\ mainPc' = IF k = Len(RegisterCalls) THEN "start" ELSE "load"
    /\ UNCHANGED <<exitCode, env, apiClient, clientsCreated, tokenRead, clientRequested, calls, nvars>>

\* a variant of Main that may run before the module statements have finished
MainBeforeLoad ==
    /\ mainPc \in {"load", "start"}
    /\ \E connects \in BOOLEAN :
          IF Truthy(env) /\ connects
            THEN mainPc' = "connected" /\ exitCode' = exitCode
            ELSE mainPc' = "exited" /\ exitCode' = Append(exitCode, 1)
    /\ UNCHANGED <<registered, env, apiClient, clientsCreated, tokenRead, clientRequested, calls, nvars>>

\* a variant of Main without the test of the credential
MainWithoutCheck ==
    /\ mainPc = "start"
    /\ \E connects \in BOOLEAN :
          IF connects
            THEN mainPc' = "connected" /\ exitCode' = exitCode
            ELSE mainPc' = "exited" /\ exitCode' = Append(exitCode, 1)
    /\ UNCHANGED <<registered, env, apiClient, clientsCreated, tokenRead, clientRequested, calls, nvars>>

\* main (index.ts, types.ts:196-220): process.exit(1) without the credential;
\* else connect the stdio transport, and process.exit(1) from the catch of
\* main() when server.connect throws
Main ==
    /\ mainPc = "start"
    /\ \E connects \in BOOLEAN :
          IF Truthy(env) /\ connects
            THEN mainPc' = "connected" /\ exitCode' = exitCode
            ELSE mainPc' = "exited" /\ exitCode' = Append(exitCode, 1)
    /\ UNCHANGED <<registered, env, apiClient, clientsCreated, tokenRead, clientRequested, calls, nvars>>

\* the environment variable is set, changed or deleted while the server runs
SetEnv(v) ==
    /\ mainPc = "connected"
    /\ v # env
    /\ env' = v
    /\ UNCHANGED <<mainPc, registered, exitCode, apiClient, clientsCreated, tokenRead, clientRequested, calls, nvars>>

\* a variant of Invoke that keeps a record of the operations carried out: it
\* refuses an operation that a finished call has already carried out on the
\* same id
InvokeOnce(c, tool, raw) ==
    /\ mainPc = "connected"
    /\ calls[c].pc = "idle"
    /\ \E i \in DOMAIN registered : registered[i] = tool
    /\ clientsCreated < MaxClients
    /\ IF ~SchemaAccepts(tool, raw)
         THEN /\ calls' = [calls EXCEPT ![c] =
                              [IdleCall EXCEPT !.pc = "rejected", !.tool = tool, !.raw = raw]]
              /\ UNCHANGED <<apiClient, clientsCreated, tokenRead, clientRequested>>
         ELSE IF \E d \in Calls : /\ calls[d].tool = tool
                                  /\ calls[d].raw.id = raw.id
                                  /\ calls[d].pc = "returned"
                                  /\ calls[d].outcome.ok
         THEN /\ calls' = [calls EXCEPT ![c] =
                              Finish([IdleCall EXCEPT !.tool = tool, !.raw = raw,
                                                      !.params = ParseInput(raw)],
                                     Returned(ErrorResult("Error: Already done.")))]
              /\ UNCHANGED <<apiClient, clientsCreated, tokenRead, clientRequested>>
         ELSE LET g == getApiClient(apiClient, env, clientsCreated)
              IN  /\ calls' = [calls EXCEPT ![c] = Start(tool, raw, g)]
                  /\ apiClient' = g.apiClient
                  /\ clientsCreated' = IF g.apiClient # apiClient
                                         THEN clientsCreated + 1 ELSE clientsCreated
                  /\ tokenRead' = (tokenRead \/ g.readToken)
                  /\ clientRequested' = TRUE
    /\ UNCHANGED <<mainPc, registered, exitCode, env, nvars>>

\* a variant of Invoke that remembers a failed initialization: once
\* getApiClient has failed, every later call fails like it
InvokeFailureKept(c, tool, raw) ==
    /\ mainPc = "connected"
    /\ calls[c].pc = "idle"
    /\ \E i \in DOMAIN registered : registered[i] = tool
    /\ clientsCreated < MaxClients
    /\ IF ~SchemaAccepts(tool, raw)
         THEN /\ calls' = [calls EXCEPT ![c] =
                              [IdleCall EXCEPT !.pc = "rejected", !.tool = tool, !.raw = raw]]
              /\ UNCHANGED <<apiClient, clientsCreated, tokenRead, clientRequested>>
         ELSE LET g == getApiClient(apiClient,
                                   IF clientRequested /\ ~apiClient.def THEN JsUndef ELSE env,
                                   clientsCreated)
              IN  /\ calls' = [calls EXCEPT ![c] = Start(tool, raw, g)]
                  /\ apiClient' = g.apiClient
                  /\ clientsCreated' = IF g.apiClient # apiClient
                                         THEN clientsCreated + 1 ELSE clientsCreated
                  /\ tokenRead' = (tokenRead \/ g.readToken)
                  /\ clientRequested' = TRUE
    /\ UNCHANGED <<mainPc, registered, exitCode, env, nvars>>

\* the runtime dispatches a tool call: the input schema is applied and, if it
\* accepts, the handler runs up to its await
Invoke(c, tool, raw) ==
    /\ mainPc = "connected"
    /\ calls[c].pc = "idle"
    /\ \E i \in DOMAIN registered : registered[i] = tool
    /\ clientsCreated < MaxClients
    /\ IF ~SchemaAccepts(tool, raw)
         THEN /\ calls' = [calls EXCEPT ![c] =
                              [IdleCall EXCEPT !.pc = "rejected", !.tool = tool, !.raw = raw]]
              /\ UNCHANGED <<apiClient, clientsCreated, tokenRead, clientRequested>>
         ELSE LET g == getApiClient(apiClient, env, clientsCreated)
              IN  /\ calls' = [calls EXCEPT ![c] = Start(tool, raw, g)]
                  /\ apiClient' = g.apiClient
                  /\ clientsCreated' = IF g.apiClient # apiClient
                                         THEN clientsCreated + 1 ELSE clientsCreated
                  /\ tokenRead' = (tokenRead \/ g.readToken)
                  /\ clientRequested' = TRUE
    /\ UNCHANGED <<mainPc, registered, exitCode, env, nvars>>

\* a variant of Respond with one response buffer for all invocations: the
\* handler formats the answer another call of the same tool received last
RespondShared(c, outcome) ==
    /\ calls[c].pc = "awaiting"
    /\ LET others == { d \in Calls \ {c} : /\ calls[d].tool = calls[c].tool
                                            /\ calls[d].pc = "returned"
                                            /\ calls[d].sent = 1 }
           buffer == IF others = {} THEN outcome
                     ELSE calls[CHOOSE d \in others : TRUE].outcome
       IN  calls' = [calls EXCEPT ![c] =
                        [Resume(calls[c], buffer) EXCEPT !.outcome = outcome]]
    /\ UNCHANGED <<mainPc, registered, exitCode, env, apiClient, clientsCreated, tokenRead, clientRequested, nvars>>

\* a variant of Respond in which a handler goes on only when no other
\* invocation is waiting for its answer
RespondWhenAlone(c, outcome) ==
    /\ calls[c].pc = "awaiting"
    /\ \A d \in Calls \ {c} : calls[d].pc # "awaiting"
    /\ calls' = [calls EXCEPT ![c] = Resume(calls[c], outcome)]
    /\ UNCHANGED <<mainPc, registered, exitCode, env, apiClient, clientsCreated, tokenRead, clientRequested, nvars>>

\* client.request of invocation c ends and the handler runs to its end
Respond(c, outcome) ==
    /\ calls[c].pc = "awaiting"
    /\ calls' = [calls EXCEPT ![c] = Resume(calls[c], outcome)]
    /\ UNCHANGED <<mainPc, registered, exitCode, env, apiClient, clientsCreated, tokenRead, clientRequested, nvars>>

\* the runtime has sent the outcome of invocation c to the caller
Collect(c) ==
    /\ calls[c].pc \in {"returned", "threw", "rejected"}
    /\ calls' = [calls EXCEPT ![c] = IdleCall]
    /\ UNCHANGED <<mainPc, registered, exitCode, env, apiClient, clientsCreated, tokenRead, clientRequested, nvars>>

(***************************************************************************)
(* Spec: the process from its start, with invocations that overlap.  The   *)
(* handlers differ only in the request they build and the text they        *)
(* format; here six of them run on one input each, and SpecCall runs all  *)
(* 14 on every input.                                                      *)
(***************************************************************************)
LifetimeTools ==
    {"hetzner_list_servers", "hetzner_get_server", "hetzner_create_server",
     "hetzner_delete_server", "hetzner_power_off_server", "hetzner_delete_ssh_key"}

LifetimeInput(tool) ==
    [EmptyInput EXCEPT !.id = IF tool \in IdTools THEN 1 ELSE 0,
                       !.name = "my-app", !.server_type = "cx22",
                       !.image = "ubuntu-24.04"]

LifetimeOutcomes(tool) ==
    { Resolved(d) : d \in
        CASE tool = "hetzner_list_servers" -> { [servers |-> << ServerWeb >>] }
          [] tool = "hetzner_create_server" ->
               { [server |-> ServerNew, root_password |-> JsStr("s3cr3tPw"),
                  action |-> [status |-> "running"]] }
          [] tool = "hetzner_delete_server" -> { [action |-> [status |-> "running"]] }
          [] tool = "hetzner_power_off_server" ->
               { [action |-> [status |-> a]] : a \in {"success", "error"} }
          [] tool = "hetzner_get_server" -> { [server |-> ServerWeb] }
          [] tool = "hetzner_delete_ssh_key" -> { NoData } }
    \cup { Rejected(e) : e \in { f \in Failures :
                                   \/ f.hasResponse /\ f.status = 429 /\ f.body = NoBody
                                   \/ f.code = JsStr("ECONNABORTED") } }

Init ==
    /\ mainPc = "load"
    /\ registered = << >>
    /\ exitCode = << >>
    /\ env \in EnvValues
    /\ apiClient = NoClient
    /\ clientsCreated = 0
    /\ tokenRead = FALSE
    /\ clientRequested = FALSE
    /\ calls = [c \in Calls |-> IdleCall]
    /\ NormalizerIdle

Next ==
    \/ Load
    \/ Main
    \/ \E v \in EnvValues : SetEnv(v)
    \/ \E c \in Calls, tool \in LifetimeTools : Invoke(c, tool, LifetimeInput(tool))
    \/ \E c \in Calls :
          /\ calls[c].pc = "awaiting"
          /\ \E outcome \in LifetimeOutcomes(calls[c].tool) : Respond(c, outcome)
    \/ \E c \in Calls : Collect(c)

Spec == Init /\ [][Next]_vars

(***************************************************************************)
(* SpecLive: the process with two of the handlers and two ways for a       *)
(* request to end, under the scheduling the client's timeout of 30 seconds *)
(* (api.ts:17) justifies: a request that is in flight settles.             *)
(***************************************************************************)
LiveTools == {"hetzner_power_off_server", "hetzner_delete_ssh_key"}

\* the provider answers, or the timeout ends the request with an Axios error
\* whose code is ECONNABORTED
LiveOutcomes(tool) ==
    LET timedOut == [cls |-> "AxiosError", hasResponse |-> FALSE, status |-> 0,
                     body |-> NoBody, code |-> JsStr("ECONNABORTED"),
                     message |-> "Network Error"]
    IN  { Resolved(IF tool = "hetzner_delete_ssh_key"
                     THEN NoData ELSE [action |-> [status |-> "running"]]),
          Rejected(timedOut) }

\* the request of invocation c settles: the provider answers or the timeout
\* ends the wait, and the handler runs to its return
Settle(c) ==
    /\ calls[c].pc = "awaiting"
    /\ \E outcome \in LiveOutcomes(calls[c].tool) : Respond(c, outcome)

LiveNext ==
    \/ Load
    \/ Main
    \/ \E v \in EnvValues : SetEnv(v)
    \/ \E c \in Calls, tool \in LiveTools : Invoke(c, tool, LifetimeInput(tool))
    \/ \E c \in Calls : Settle(c)
    \/ \E c \in Calls : Collect(c)

SpecLive == Init /\ [][LiveNext]_vars /\ \A c \in Calls : WF_vars(Settle(c))

(***************************************************************************)
(* SpecCall: one invocation of any of the 14 tools, on any input, with any *)
(* answer of the provider, in a process that is connected; the client may  *)
(* or may not have been created by an earlier invocation.                  *)
(***************************************************************************)
CallInit ==
    /\ mainPc = "connected"
    /\ registered = AllRegistered
    /\ exitCode = << >>
    /\ env \in EnvValues
    /\ \E created \in {0, 1} :
          /\ clientsCreated = created
          /\ tokenRead = (created = 1)
          /\ clientRequested = (created = 1)
          /\ apiClient = IF created = 0 THEN NoClient ELSE CreateClient("tokA", 1)
    /\ calls = [c \in Calls |-> IdleCall]
    /\ NormalizerIdle

CallInvoke == \E tool \in Tools : \E raw \in Inputs(tool) : Invoke(1, tool, raw)

CallRespond ==
    /\ calls[1].pc = "awaiting"
    /\ \E outcome \in Outcomes(calls[1].tool) : Respond(1, outcome)

CallNext == CallInvoke \/ CallRespond

SpecCall == CallInit /\ [][CallNext]_vars

(***************************************************************************)
(* SpecAnswer: SpecCall with one more answer of the provider, a successful *)
(* response whose body is null instead of the object the handler expects.  *)
(***************************************************************************)
AnswerRespond ==
    /\ calls[1].pc = "awaiting"
    /\ \E outcome \in Outcomes(calls[1].tool) \cup {Resolved(NullData)} :
          Respond(1, outcome)

AnswerNext == CallInvoke \/ AnswerRespond

SpecAnswer == CallInit /\ [][AnswerNext]_vars

(***************************************************************************)
(* SpecNormalizer: handleApiError applied to every thrown value.           *)
(***************************************************************************)
NormalizerInit ==
    /\ thrown \in ThrownValues
    /\ message = Returned("")
    /\ npc = "in"
    /\ mainPc = "start"
    /\ registered = AllRegistered
    /\ exitCode = << >>
    /\ env = JsUndef
    /\ apiClient = NoClient
    /\ clientsCreated = 0
    /\ tokenRead = FALSE
    /\ clientRequested = FALSE
    /\ calls = [c \in Calls |-> IdleCall]

Normalize ==
    /\ npc = "in"
    /\ message' = handleApiError(thrown)
    /\ npc' = "out"
    /\ UNCHANGED <<thrown, sysvars>>

NormalizerNext == Normalize

SpecNormalizer == NormalizerInit /\ [][NormalizerNext]_vars

(***************************************************************************)
(* Properties of handleApiError, checked under SpecNormalizer.             *)
(***************************************************************************)

\* the thrown value has been normalized
Normalized == npc = "out"

\* the thrown value is an Axios error that carries an HTTP response
HasResponse == thrown.cls = "AxiosError" /\ thrown.hasResponse

\* the thrown value is an Axios error without an HTTP response
NoResponse == thrown.cls = "AxiosError" /\ ~thrown.hasResponse

\* the non-empty detail of the provider's error body, "" when there is none
ProviderDetail ==
    IF thrown.body.kind = "error" /\ thrown.body.message.def
      THEN thrown.body.message.s
      ELSE ""

\* C3: handleApiError is total: for every thrown value (an HTTP error with or
\* without a provider body, an error without a response, an ordinary Error, a
\* value that is no Error) it returns a non-empty string and never throws.
Thm_C3 ==
    Normalized =>
        /\ ~message.threw
        /\ message.value \in STRING
        /\ Len(message.value) > 0
        /\ StartsWith(message.value, "Error: ")

\* an HTTP error whose response body is null has been normalized
Wit_C3 ==
    /\ Normalized
    /\ HasResponse
    /\ thrown.body.kind = "null"
    /\ ~message.threw

\* the opening words of the category the table of section 4.2 gives a status
ExpectedCategory(status) ==
    CASE status = 401 -> "Error: Authentication failed."
      [] status = 403 -> "Error: Permission denied."
      [] status = 404 -> "Error: Resource not found."
      [] status = 409 -> "Error: Conflict."
      [] status = 422 -> "Error: Invalid request."
      [] status = 429 -> "Error: Rate limit exceeded."
      [] status = 503 -> "Error: Hetzner API is temporarily unavailable."
      [] OTHER -> "Error: API request failed (" \o ToString(status) \o ")"

Categories ==
    { ExpectedCategory(status) : status \in {401, 403, 404, 409, 422, 429, 503} }
        \cup { "Error: API request failed (" }

\* C4: for an error that carries an HTTP response the category of the message
\* is a function of the status code alone: 401 authentication, 403
\* permission, 404 not found, 409 conflict, 422 invalid request, 429 rate
\* limit, 503 unavailable, any other status the generic "API request failed
\* (<status>)"; the message falls in no other category.
Thm_C4 ==
    (Normalized /\ HasResponse) =>
        /\ ~message.threw
        /\ StartsWith(message.value, ExpectedCategory(thrown.status))
        /\ \A category \in Categories :
               StartsWith(message.value, category)
                   => StartsWith(ExpectedCategory(thrown.status), category)

\* a 409 with a provider detail and an error code of its own has been
\* normalized
Wit_C4 ==
    /\ Normalized
    /\ HasResponse
    /\ thrown.status = 409
    /\ thrown.body.kind = "error"
    /\ thrown.code = JsStr("ECONNABORTED")
    /\ ~message.threw

\* C5: a 403 or 404 message contains the provider's detail when the response
\* carries a non-empty one and the default hint otherwise; the 401, 429 and
\* 503 messages are fixed strings whatever the response body holds.
Thm_C5 ==
    (Normalized /\ HasResponse) =>
        /\ ~message.threw
        /\ thrown.status = 403 =>
               IF ProviderDetail # ""
                 THEN /\ Contains(message.value, ProviderDetail)
                      /\ ~Contains(message.value, "You don't have access to this resource.")
                 ELSE Contains(message.value, "You don't have access to this resource.")
        /\ thrown.status = 404 =>
               IF ProviderDetail # ""
                 THEN /\ Contains(message.value, ProviderDetail)
                      /\ ~Contains(message.value, "Please check the ID is correct.")
                 ELSE Contains(message.value, "Please check the ID is correct.")
        /\ thrown.status = 401 =>
               message.value = "Error: Authentication failed. Please check your HETZNER_API_TOKEN."
        /\ thrown.status = 429 =>
               message.value = "Error: Rate limit exceeded. Please wait a moment before making more requests."
        /\ thrown.status = 503 =>
               message.value = "Error: Hetzner API is temporarily unavailable. Please try again later."

\* a 404 whose body carries a provider detail has been normalized
Wit_C5 ==
    /\ Normalized
    /\ HasResponse
    /\ thrown.status = 404
    /\ ProviderDetail = "server is locked"
    /\ Contains(message.value, "server is locked")

EndsWith(s, p) == Len(s) >= Len(p) /\ SubSeq(s, Len(s) - Len(p) + 1, Len(s)) = p

\* the call's handler has ended
Ended(call) == call.pc \in {"returned", "threw"}

\* the call's HTTP request was sent and failed
RequestFailed(call) == call.sent >= 1 /\ ~call.outcome.ok /\ call.outcome.error.cls # "none"

\* the call's result is an error result with one text item
IsErrorResult(result) ==
    /\ result.isError
    /\ Len(result.content) = 1
    /\ result.content[1].type = "text"
    /\ Len(result.content[1].text) > 0

\* C1: whatever way the HTTP call fails (an HTTP error status, a network
\* failure, a timeout, any other thrown value), each of the fourteen
\* handlers ends by returning a result with isError = true and one text item
\* holding the normalized message; no exception escapes a handler.
Thm_C1 ==
    \A c \in Calls :
        /\ calls[c].pc # "threw"
        /\ RequestFailed(calls[c]) =>
               /\ calls[c].pc = "returned"
               /\ IsErrorResult(calls[c].result)
               /\ handleApiError(calls[c].outcome.error)
                      = Returned(calls[c].result.content[1].text)

\* hetzner_delete_ssh_key has returned after its request was rejected with a
\* value that is no Error
Wit_C1 ==
    \E c \in Calls :
        /\ calls[c].tool = "hetzner_delete_ssh_key"
        /\ calls[c].pc = "returned"
        /\ RequestFailed(calls[c])
        /\ calls[c].outcome.error.cls = "other"
        /\ calls[c].result.isError

\* C8: an invocation sends at most one HTTP request, and exactly one when the
\* client is available; once that request has been answered, with data or
\* with a failure, the handler ends without sending another.
Thm_C8 ==
    \A c \in Calls :
        /\ calls[c].sent <= 1
        /\ calls[c].pc \in {"idle", "rejected"} => calls[c].sent = 0
        /\ calls[c].pc \in {"awaiting", "returned", "threw"} =>
               (calls[c].sent = 1 <=> calls[c].client.def)
        /\ calls[c].pc = "awaiting" => (calls[c].sent = 1 /\ calls[c].outcome = NoOutcome)
        /\ (calls[c].outcome # NoOutcome) => (Ended(calls[c]) /\ calls[c].sent = 1)

\* a handler has returned after one request that the provider answered 429
Wit_C8 ==
    \E c \in Calls :
        /\ calls[c].pc = "returned"
        /\ RequestFailed(calls[c])
        /\ calls[c].outcome.error.status = 429
        /\ calls[c].sent = 1

\* C9: delete, power on, power off and reboot return as soon as the provider
\* has answered, reporting the status of the action in that first answer
\* (running, success or error) and sending nothing more.
Thm_C9 ==
    \A c \in Calls :
        (calls[c].tool \in ActionTools /\ calls[c].outcome.ok) =>
            /\ calls[c].pc = "returned"
            /\ calls[c].sent = 1
            /\ ~calls[c].result.isError
            /\ Len(calls[c].result.content) = 1
            /\ EndsWith(calls[c].result.content[1].text,
                        "Action status: " \o calls[c].outcome.data.action.status)

\* hetzner_power_off_server has returned while the action is still running
Wit_C9 ==
    \E c \in Calls :
        /\ calls[c].tool = "hetzner_power_off_server"
        /\ calls[c].pc = "returned"
        /\ calls[c].outcome.ok
        /\ calls[c].outcome.data.action.status = "running"
        /\ EndsWith(calls[c].result.content[1].text, "Action status: running")

\* hetzner_create_server has returned after the provider created the server
Created(call) ==
    /\ call.tool = "hetzner_create_server"
    /\ call.pc = "returned"
    /\ call.outcome.ok

\* the caller supplied at least one SSH key
KeysSupplied(call) == call.raw.ssh_keys.def /\ Len(call.raw.ssh_keys.v) > 0

\* the result's text reports a root password
ReportsPassword(text) ==
    \/ Contains(text, "**Root Password**: ")
    \/ Contains(text, "\"root_password\": \"")

\* the result's text reports that there is no root password
ReportsNoPassword(text) ==
    \/ Contains(text, "No root password was generated.")
    \/ Contains(text, "\"root_password\": null")

\* the response carries a root password the chosen format can show
CarriesPassword(call) ==
    IF call.params.response_format = JSON
      THEN call.outcome.data.root_password.def
      ELSE Truthy(call.outcome.data.root_password)

\* the provider returns a password exactly for a request without SSH keys
ProviderGeneratesPassword(call) ==
    IF KeysSupplied(call)
      THEN ~call.outcome.data.root_password.def
      ELSE Truthy(call.outcome.data.root_password)

ConfigFailed(call) == Ended(call) /\ call.sent = 0

\* C2 as stated: when the credential is missing the configuration error is
\* not caught: it leaves the handler as an exception.
Orig_C2 ==
    \A c \in Calls :
        ConfigFailed(calls[c]) => calls[c].pc = "threw"

\* C2: when the credential is missing and no client exists, the handler
\* catches the configuration error like any other: it returns an error
\* result whose text names the missing HETZNER_API_TOKEN, sends no request,
\* and no exception leaves the handler.
Thm_C2 ==
    \A c \in Calls :
        ConfigFailed(calls[c]) =>
            /\ calls[c].pc = "returned"
            /\ calls[c].result
                   = ErrorResult("Error: HETZNER_API_TOKEN environment variable is required")
            /\ ~calls[c].client.def
            /\ calls[c].request = IdleCall.request

\* hetzner_get_server was invoked with the credential gone and no client
\* created, and has ended
Wit_C2 ==
    \E c \in Calls :
        /\ calls[c].tool = "hetzner_get_server"
        /\ ConfigFailed(calls[c])
        /\ ~Truthy(env)
        /\ ~apiClient.def
        /\ mainPc = "connected"

\* what holds of the client in every state
ClientMemoized ==
    /\ ~clientRequested => (~tokenRead /\ ~apiClient.def /\ clientsCreated = 0)
    /\ clientsCreated <= 1
    /\ apiClient.def <=> clientsCreated = 1
    /\ \A c \in Calls :
           calls[c].pc = "awaiting" => (calls[c].client.def /\ calls[c].client = apiClient)

\* once the client exists no step replaces it or creates another
ClientKept ==
    apiClient.def => (apiClient' = apiClient /\ clientsCreated' = clientsCreated)

\* C7: the credential is not read and no client is created before the first
\* call that needs the client; once a client is created every later call
\* gets that same client and none is created again, also after the
\* credential was changed or removed.
Thm_C7 == []ClientMemoized /\ [][ClientKept]_vars

\* two calls wait on the one client created with the first credential while
\* the environment holds another
Wit_C7 ==
    /\ apiClient.def
    /\ apiClient.authorization = "Bearer tokA"
    /\ env = JsStr("tokB")
    /\ clientsCreated = 1
    /\ \A c \in Calls : calls[c].pc = "awaiting" /\ calls[c].client = apiClient

(***************************************************************************)
(* Properties of hetzner_list_images, checked under SpecCall.              *)
(***************************************************************************)

\* hetzner_list_images has returned after the provider answered with images
ImagesListed(call) ==
    /\ call.tool = "hetzner_list_images"
    /\ call.pc = "returned"
    /\ call.outcome.ok

\* the image is part of the result: its description, which no other image
\* shares, is in the text (both formats show it)
ImageShown(img, text) == Contains(text, img.description)

\* the images of the provider's response
ResponseImages(call) == { call.outcome.data.images[i] : i \in 1..Len(call.outcome.data.images) }

\* the type the request asks the provider for
RequestedType(call) == IF call.raw.type.def THEN call.raw.type.s ELSE "system"

\* C11 as stated: without a type filter every image of the result has type
\* system and status available, whatever images the response contains.
Orig_C11 ==
    \A c \in Calls :
        (ImagesListed(calls[c]) /\ ~calls[c].raw.type.def) =>
            \A img \in Images :
                ImageShown(img, calls[c].result.content[1].text)
                    => (img.type = "system" /\ img.status = "available")

\* C11: list-images sends the type filter to the provider, "system" when the
\* caller gave none and the caller's type otherwise, and shows exactly the
\* images of the response whose status is available; the type of an image is
\* not tested locally, so the images shown have the requested type whenever
\* the provider's response holds only images of that type.
Thm_C11 ==
    \A c \in Calls :
        ImagesListed(calls[c]) =>
            LET text == calls[c].result.content[1].text
            IN  /\ calls[c].request.params = Arg(<< <<"type", RequestedType(calls[c])>> >>)
                /\ calls[c].request.url = "/images"
                /\ \A img \in Images :
                       ImageShown(img, text)
                           <=> (img \in ResponseImages(calls[c]) /\ img.status = "available")
                /\ (\A img \in ResponseImages(calls[c]) : img.type = RequestedType(calls[c]))
                       => \A img \in Images :
                              ImageShown(img, text)
                                  => (img.type = RequestedType(calls[c])
                                      /\ img.status = "available")

\* list-images without a type filter has returned for a response that holds
\* an available and an unavailable system image: only the first is shown
Wit_C11 ==
    \E c \in Calls :
        /\ ImagesListed(calls[c])
        /\ ~calls[c].raw.type.def
        /\ ResponseImages(calls[c]) = {ImageUbuntu, ImageOld}
        /\ ImageShown(ImageUbuntu, calls[c].result.content[1].text)
        /\ ~ImageShown(ImageOld, calls[c].result.content[1].text)

(***************************************************************************)
(* Properties of input validation, checked under SpecCall.                 *)
(***************************************************************************)

\* the character is a letter, a digit or a hyphen
LetterDigitHyphen(ch) ==
    \/ \E i \in 1..26 : ch = SubSeq(LowerCase, i, i) \/ ch = SubSeq(UpperCase, i, i)
    \/ ch \in {"0", "1", "2", "3", "4", "5", "6", "7", "8", "9"}
    \/ ch = "-"

\* the name has 1 to 255 characters, all of them letters, digits or hyphens
NameAllowed(name) ==
    /\ Len(name) \in 1..255
    /\ \A i \in 1..Len(name) : LetterDigitHyphen(SubSeq(name, i, i))

\* create-server has been invoked
CreateInvoked(call) == call.tool = "hetzner_create_server" /\ call.pc # "idle"

\* C12: create-server accepts a name only if it has 1 to 255 characters, all
\* letters, digits or hyphens; an invocation with any other name is rejected
\* by the input schema, the handler does not run and no request is sent; a
\* name of that form is accepted when the other fields are valid.
Thm_C12 ==
    \A c \in Calls :
        CreateInvoked(calls[c]) =>
            /\ calls[c].pc # "rejected" => NameAllowed(calls[c].raw.name)
            /\ ~NameAllowed(calls[c].raw.name) =>
                   /\ calls[c].pc = "rejected"
                   /\ calls[c].sent = 0
                   /\ calls[c].request = IdleCall.request
                   /\ ~calls[c].client.def
            /\ (NameAllowed(calls[c].raw.name)
                /\ (calls[c].raw.response_format.def
                       => calls[c].raw.response_format.s \in {MARKDOWN, JSON}))
                   => calls[c].pc # "rejected"

\* create-server was invoked with a name that contains a space and rejected
Wit_C12 ==
    \E c \in Calls :
        /\ CreateInvoked(calls[c])
        /\ calls[c].raw.name = "my app"
        /\ calls[c].pc = "rejected"
        /\ calls[c].sent = 0

(***************************************************************************)
(* Properties of repeated and overlapping invocations, checked under Spec. *)
(***************************************************************************)

\* what the handler of a delete or power operation says the server is doing
ActionVerb(tool) ==
    CASE tool = "hetzner_delete_server" -> "being deleted"
      [] tool = "hetzner_power_on_server" -> "powering on"
      [] tool = "hetzner_power_off_server" -> "powering off"
      [] tool = "hetzner_reboot_server" -> "rebooting"

\* C13: delete and power operations keep no record of earlier calls: however
\* many invocations on the same id came before or run beside it, the result
\* of an invocation is determined by its id and the provider's answer to its
\* own request: the action status of the answer, or the normalized error of
\* the failure; repeating the operation raises no local error.
Thm_C13 ==
    \A c \in Calls :
        (calls[c].tool \in ActionTools /\ calls[c].pc \in {"returned", "threw"}) =>
            /\ calls[c].pc = "returned"
            /\ calls[c].outcome.ok =>
                   calls[c].result =
                       TextResult("Server " \o ToString(calls[c].raw.id) \o " is "
                                  \o ActionVerb(calls[c].tool) \o ". Action status: "
                                  \o calls[c].outcome.data.action.status)
            /\ RequestFailed(calls[c]) =>
                   calls[c].result = ErrorResult(handleApiError(calls[c].outcome.error).value)
            /\ calls[c].sent = 0 =>
                   calls[c].result
                       = ErrorResult("Error: HETZNER_API_TOKEN environment variable is required")

\* power-off on the same server has returned twice: once the provider
\* answered success, once error
Wit_C13 ==
    /\ \A c \in Calls : calls[c].tool = "hetzner_power_off_server" /\ calls[c].raw.id = 1
    /\ calls[1].pc = "returned" /\ calls[1].outcome.ok
    /\ calls[1].outcome.data.action.status = "success"
    /\ calls[2].pc = "returned" /\ calls[2].outcome.ok
    /\ calls[2].outcome.data.action.status = "error"
    /\ EndsWith(calls[2].result.content[1].text, "Action status: error")

(***************************************************************************)
(* Properties of the error flag, checked under SpecAnswer.                 *)
(***************************************************************************)

\* the successful answer lacks the body the handler reads
BodyMissing(call) ==
    /\ call.outcome.ok
    /\ call.outcome.data = NullData
    /\ call.tool # "hetzner_delete_ssh_key"

\* makeApiRequest failed: there was no client or the request was rejected
TransportFailed(call) == ~(call.sent = 1 /\ call.outcome.ok)

\* the value the catch block of the call caught
Caught(call) ==
    IF call.sent = 0 THEN ConfigError
    ELSE IF call.outcome.ok THEN TypeError
    ELSE call.outcome.error

\* C14: a result that carries isError = true has exactly one item, a text
\* whose content is the one message handleApiError produced for the value
\* caught; it starts with "Error:", is a single line, and holds no heading,
\* entity block or JSON of a formatted output.
Thm_C14 ==
    \A c \in Calls :
        (calls[c].pc = "returned" /\ calls[c].result.isError) =>
            LET text == calls[c].result.content[1].text
            IN  /\ Len(calls[c].result.content) = 1
                /\ calls[c].result.content[1].type = "text"
                /\ handleApiError(Caught(calls[c])) = Returned(text)
                /\ StartsWith(text, "Error:")
                /\ ~Contains(text, "\n")
                /\ ~Contains(text, "#")
                /\ ~Contains(text, "**")
                /\ ~Contains(text, "(ID: ")
                /\ ~Contains(text, "{")

\* create-server has returned an error result after the provider answered 422
\* with a detail
Wit_C14 ==
    \E c \in Calls :
        /\ calls[c].tool = "hetzner_create_server"
        /\ calls[c].pc = "returned"
        /\ calls[c].result.isError
        /\ RequestFailed(calls[c])
        /\ calls[c].outcome.error.status = 422
        /\ Contains(calls[c].result.content[1].text, "server is locked")

\* C15 as stated: the result carries the error flag if and only if the
\* transport call failed.
Orig_C15 ==
    \A c \in Calls :
        Ended(calls[c]) =>
            /\ calls[c].pc = "returned"
            /\ calls[c].result.isError <=> TransportFailed(calls[c])

\* C15: whenever the transport call fails the handler returns the normalized
\* error with isError; whenever the provider answers successfully with the
\* body the handler expects it returns formatted output without isError; a
\* successful answer whose body is null makes the handler throw inside its
\* try block, and the result carries isError although the transport call
\* succeeded (hetzner_delete_ssh_key, which reads no body, excepted).
Thm_C15 ==
    \A c \in Calls :
        Ended(calls[c]) =>
            LET text == calls[c].result.content[1].text
            IN  /\ calls[c].pc = "returned"
                /\ calls[c].result.isError
                       <=> (TransportFailed(calls[c]) \/ BodyMissing(calls[c]))
                /\ calls[c].result.isError
                       => handleApiError(Caught(calls[c])) = Returned(text)
                /\ ~calls[c].result.isError
                       => /\ Len(text) > 0
                          /\ ~StartsWith(text, "Error:")
                          /\ text = SuccessText(calls[c].tool, calls[c].params,
                                                calls[c].outcome.data)

\* list-servers has returned an error result although the provider answered
\* its request successfully: the body was null
Wit_C15 ==
    \E c \in Calls :
        /\ calls[c].tool = "hetzner_list_servers"
        /\ calls[c].pc = "returned"
        /\ calls[c].sent = 1
        /\ calls[c].outcome.ok
        /\ BodyMissing(calls[c])
        /\ calls[c].result.isError

\* the result the handler of a call returns for its own input and the way
\* its own request ended
OwnResult(call) ==
    IF call.sent = 0
      THEN ErrorResult("Error: HETZNER_API_TOKEN environment variable is required")
    ELSE IF call.outcome.ok
      THEN TextResult(SuccessText(call.tool, ParseInput(call.raw), call.outcome.data))
    ELSE ErrorResult(handleApiError(call.outcome.error).value)

\* what holds of overlapping invocations in every state
CallsIndependent ==
    /\ clientsCreated <= 1
    /\ \A c \in Calls :
           /\ calls[c].sent = 1 =>
                  /\ calls[c].request = RequestOf(calls[c].tool, ParseInput(calls[c].raw))
                  /\ calls[c].client.serial = 1
           /\ Ended(calls[c]) =>
                  /\ calls[c].pc = "returned"
                  /\ calls[c].result = OwnResult(calls[c])

\* a step of one invocation leaves every other invocation as it was
OneCallPerStep ==
    \A c, d \in Calls : (c # d /\ calls'[c] # calls[c]) => calls'[d] = calls[d]

\* C16: invocations that overlap are independent under every interleaving:
\* the result of each is determined by its own input and by how its own
\* request ended, a step of one changes nothing of another, and however many
\* invocations start before a client exists at most one client is created,
\* which all of them use.
Thm_C16 == []CallsIndependent /\ [][OneCallPerStep]_vars

\* list-servers still waits for its answer while delete-server, invoked
\* beside it, has already returned an error; one client serves both
Wit_C16 ==
    /\ calls[1].tool = "hetzner_list_servers"
    /\ calls[1].pc = "awaiting"
    /\ calls[2].tool = "hetzner_delete_server"
    /\ calls[2].pc = "returned"
    /\ calls[2].result.isError
    /\ calls[2].client = calls[1].client
    /\ clientsCreated = 1

\* the process can receive a tool invocation: the transport is connected
CanReceive == mainPc = "connected"

\* what holds of start-up in every state
StartupChecked ==
    /\ mainPc \in {"load", "start", "connected", "exited"}
    /\ mainPc = "exited" <=> exitCode = <<1>>
    /\ mainPc # "exited" => exitCode = << >>
    /\ ~CanReceive =>
           /\ \A c \in Calls : calls[c] = IdleCall
           /\ ~apiClient.def
           /\ ~clientRequested

\* main connects only with the credential, and a process that has exited
\* stays so
StartupStep ==
    /\ (mainPc = "start" /\ ~Truthy(env)) => (mainPc' = "exited" /\ exitCode' = <<1>>)
    /\ (~CanReceive /\ CanReceive') => (mainPc = "start" /\ Truthy(env))
    /\ mainPc = "exited" => (mainPc' = "exited" /\ exitCode' = exitCode)

\* C17: when HETZNER_API_TOKEN is absent (or empty) at process start, main
\* exits with status 1 before it connects the transport, and the process
\* never becomes able to receive a tool invocation; the transport is
\* connected only after the test of the credential has passed.
Thm_C17 == []StartupChecked /\ [][StartupStep]_vars

\* the process has exited with status 1 and the credential is absent
Wit_C17 ==
    /\ mainPc = "exited"
    /\ exitCode = <<1>>
    /\ ~env.def
    /\ \A c \in Calls : calls[c] = IdleCall

(***************************************************************************)
(* Properties of the output formats and the requests, checked under        *)
(* SpecCall.                                                               *)
(***************************************************************************)

ListGetTools ==
    {"hetzner_list_servers", "hetzner_get_server", "hetzner_list_ssh_keys",
     "hetzner_get_ssh_key", "hetzner_list_server_types", "hetzner_list_images",
     "hetzner_list_locations"}

\* the entities a tool may be answered with
EntityDomain(tool) ==
    CASE tool \in {"hetzner_list_servers", "hetzner_get_server"} -> Servers
      [] tool \in {"hetzner_list_ssh_keys", "hetzner_get_ssh_key"} -> SSHKeys
      [] tool = "hetzner_list_server_types" -> ServerTypes
      [] tool = "hetzner_list_images" -> Images
      [] tool = "hetzner_list_locations" -> Locations

\* a text of the entity that both formats show and no other entity has
Marker(tool, e) ==
    CASE tool \in {"hetzner_list_servers", "hetzner_get_server"} -> e.name
      [] tool \in {"hetzner_list_ssh_keys", "hetzner_get_ssh_key"} -> e.fingerprint
      [] OTHER -> e.description

\* the entities of the answer that the operation is to show
EntitySet(tool, data) ==
    CASE tool = "hetzner_list_servers" -> { data.servers[i] : i \in 1..Len(data.servers) }
      [] tool = "hetzner_get_server" -> { data.server }
      [] tool = "hetzner_list_ssh_keys" -> { data.ssh_keys[i] : i \in 1..Len(data.ssh_keys) }
      [] tool = "hetzner_get_ssh_key" -> { data.ssh_key }
      [] tool = "hetzner_list_server_types" ->
             { data.server_types[i] : i \in 1..Len(data.server_types) }
      [] tool = "hetzner_list_images" ->
             { img \in { data.images[i] : i \in 1..Len(data.images) } :
                 img.status = "available" }
      [] tool = "hetzner_list_locations" ->
             { data.locations[i] : i \in 1..Len(data.locations) }

\* C18: every list and get operation takes a response format, markdown when
\* none is given and nothing but markdown or json; with json the text is a
\* JSON array or object that holds each entity of the set, with markdown it
\* is the narrative text, and in both the entities shown are exactly those of
\* the answer (for list-images, those whose status is available).
Thm_C18 ==
    \A c \in Calls :
        (calls[c].tool \in ListGetTools /\ calls[c].pc # "idle") =>
            LET tool == calls[c].tool
                format == calls[c].raw.response_format
                text == calls[c].result.content[1].text
            IN  /\ (format.def /\ format.s \notin {"markdown", "json"})
                       => calls[c].pc = "rejected"
                /\ (calls[c].pc = "returned" /\ calls[c].outcome.ok) =>
                       LET shown == EntitySet(tool, calls[c].outcome.data)
                       IN  /\ \A e \in EntityDomain(tool) :
                                  Contains(text, Marker(tool, e)) <=> e \in shown
                           /\ IF format = JsStr("json")
                                THEN /\ StartsWith(text, "[") \/ StartsWith(text, "{")
                                     /\ \A e \in shown :
                                            Contains(text, "\": \"" \o Marker(tool, e) \o "\"")
                                ELSE /\ \/ StartsWith(text, "# ")
                                        \/ shown = {} /\ StartsWith(text, "No ")
                                     /\ ~Contains(text, "\": \"")

\* list-locations was invoked without a response format and has returned the
\* narrative text of the two locations of the answer
Wit_C18 ==
    \E c \in Calls :
        /\ calls[c].tool = "hetzner_list_locations"
        /\ ~calls[c].raw.response_format.def
        /\ calls[c].pc = "returned"
        /\ calls[c].outcome.ok
        /\ Len(calls[c].outcome.data.locations) = 2
        /\ StartsWith(calls[c].result.content[1].text, "# Available Locations")

\* the verb the table of endpoints gives a tool
EndpointVerb(tool) ==
    CASE tool \in ListGetTools -> "GET"
      [] tool \in {"hetzner_create_server", "hetzner_create_ssh_key"} -> "POST"
      [] tool \in {"hetzner_delete_server", "hetzner_delete_ssh_key"} -> "DELETE"
      [] tool \in {"hetzner_power_on_server", "hetzner_power_off_server",
                   "hetzner_reboot_server"} -> "POST"

\* the path the table of endpoints gives a tool and an id
EndpointPath(tool, id) ==
    CASE tool \in {"hetzner_list_servers", "hetzner_create_server"} -> "/servers"
      [] tool \in {"hetzner_get_server", "hetzner_delete_server"} ->
             "/servers/" \o ToString(id)
      [] tool \in {"hetzner_list_ssh_keys", "hetzner_create_ssh_key"} -> "/ssh_keys"
      [] tool \in {"hetzner_get_ssh_key", "hetzner_delete_ssh_key"} ->
             "/ssh_keys/" \o ToString(id)
      [] tool = "hetzner_list_server_types" -> "/server_types"
      [] tool = "hetzner_list_images" -> "/images"
      [] tool = "hetzner_list_locations" -> "/locations"
      [] tool = "hetzner_power_on_server" ->
             "/servers/" \o ToString(id) \o "/actions/poweron"
      [] tool = "hetzner_power_off_server" ->
             "/servers/" \o ToString(id) \o "/actions/poweroff"
      [] tool = "hetzner_reboot_server" ->
             "/servers/" \o ToString(id) \o "/actions/reboot"

\* C19: the one request of an operation goes to the operation's own endpoint
\* with its own verb: GET for list and get, POST for create and for power on,
\* power off and reboot, DELETE for delete, on the paths of the table, with
\* the id the caller gave in the path; the client holds the fixed base URL.
Thm_C19 ==
    \A c \in Calls :
        calls[c].sent >= 1 =>
            /\ calls[c].tool \in Tools
            /\ calls[c].request.method = EndpointVerb(calls[c].tool)
            /\ calls[c].request.url = EndpointPath(calls[c].tool, calls[c].raw.id)
            /\ calls[c].client.baseURL = "https://api.hetzner.cloud/v1"

\* reboot of server 2 has sent its request
Wit_C19 ==
    \E c \in Calls :
        /\ calls[c].tool = "hetzner_reboot_server"
        /\ calls[c].raw.id = 2
        /\ calls[c].sent = 1
        /\ calls[c].request.method = "POST"
        /\ calls[c].request.url = "/servers/2/actions/reboot"

\* C20: the capability hints agree with the requests: a tool declared
\* read-only sends only GET and is declared non-destructive, a tool that
\* sends POST or DELETE is declared not read-only, and both delete tools are
\* declared destructive.
Thm_C20 ==
    /\ \A tool \in Tools :
           /\ Annotations(tool).readOnlyHint => ~Annotations(tool).destructiveHint
           /\ tool \in {"hetzner_delete_server", "hetzner_delete_ssh_key"}
                  => Annotations(tool).destructiveHint
    /\ \A c \in Calls :
           calls[c].sent >= 1 =>
               /\ Annotations(calls[c].tool).readOnlyHint => calls[c].request.method = "GET"
               /\ calls[c].request.method \in {"POST", "DELETE"}
                      => ~Annotations(calls[c].tool).readOnlyHint
               /\ calls[c].request.method = "DELETE"
                      => Annotations(calls[c].tool).destructiveHint

\* hetzner_delete_ssh_key, declared destructive and not read-only, has sent
\* its DELETE request
Wit_C20 ==
    \E c \in Calls :
        /\ calls[c].tool = "hetzner_delete_ssh_key"
        /\ calls[c].sent = 1
        /\ calls[c].request.method = "DELETE"
        /\ Annotations(calls[c].tool).destructiveHint
        /\ ~Annotations(calls[c].tool).readOnlyHint

(***************************************************************************)
(* C21: the registry of tools                                              *)
(***************************************************************************)
\* how many of the registered names belong to a group of tools
RegisteredIn(group) == Cardinality({i \in DOMAIN registered : registered[i] \in group})

\* no name has been registered twice
DistinctNames == \A i, j \in DOMAIN registered : registered[i] = registered[j] => i = j

\* C21: once the module statements have run, and so whenever main runs, the
\* transport is connected or the process has exited, exactly 14 tools are
\* registered under pairwise distinct names: 7 server tools, 4 SSH key tools
\* and 3 reference tools; until then the transport is not connected and
\* only registered tools are invoked.
Thm_C21 ==
    /\ mainPc # "load" =>
           /\ Len(registered) = 14
           /\ DistinctNames
           /\ RegisteredIn(ServerTools) = 7
           /\ RegisteredIn(SSHKeyTools) = 4
           /\ RegisteredIn(ReferenceTools) = 3
    /\ Len(registered) < 14 => (mainPc = "load" /\ \A c \in Calls : calls[c].pc = "idle")
    /\ DistinctNames

\* the transport is connected, 14 tools are registered and one of them has
\* been invoked and has answered
Wit_C21 ==
    /\ mainPc = "connected"
    /\ Len(registered) = 14
    /\ \E c \in Calls : calls[c].pc = "returned" /\ ~calls[c].result.isError

(***************************************************************************)
(* C22: the labels line                                                    *)
(***************************************************************************)
\* the positions in str at which sep occurs
SepPositions(str, sep) ==
    {i \in 1..Len(str) : i + Len(sep) - 1 <= Len(str) /\ SubSeq(str, i, i + Len(sep) - 1) = sep}

\* the pieces of str between the occurrences of sep
SplitOn(str, sep) ==
    LET at == SepPositions(str, sep)
        pos(k) == CHOOSE q \in at : Cardinality({r \in at : r < q}) = k - 1
    IN  [k \in 1..(Cardinality(at) + 1) |->
            SubSeq(str,
                   IF k = 1 THEN 1 ELSE pos(k - 1) + Len(sep),
                   IF k = Cardinality(at) + 1 THEN Len(str) ELSE pos(k) - 1)]

LinesOf(text) == SplitOn(text, "\n")

LabelsPrefix == "- **Labels**: "

IsLabelsLine(line) == StartsWith(line, LabelsPrefix)

LabelLines(text) == SelectSeq(LinesOf(text), IsLabelsLine)

\* a handler has returned the markdown text of one server or one SSH key
FormatsOne(call) ==
    /\ call.pc = "returned"
    /\ call.outcome.ok
    /\ call.params.response_format = MARKDOWN
    /\ call.tool \in {"hetzner_get_server", "hetzner_create_server",
                      "hetzner_get_ssh_key", "hetzner_create_ssh_key"}

\* the entity that handler formatted
Formatted(call) ==
    IF call.tool \in ServerTools THEN call.outcome.data.server ELSE call.outcome.data.ssh_key

\* C22: the text of a server or an SSH key has no labels line when the label
\* map is empty and exactly one when it is not; that line is the prefix
\* '- **Labels**: ' followed by the labels, each once as key=value, separated
\* by ', '; for the map {env: prod} it is '- **Labels**: env=prod'.
Thm_C22 ==
    \A c \in Calls :
        FormatsOne(calls[c]) =>
            LET labels == Formatted(calls[c]).labels
                found == LabelLines(calls[c].result.content[1].text)
            IN  /\ Len(labels) = 0 =>
                       (found = << >> /\ ~Contains(calls[c].result.content[1].text, "Labels"))
                /\ Len(labels) > 0 =>
                       /\ Len(found) = 1
                       /\ LET rest == SubSeq(found[1], Len(LabelsPrefix) + 1, Len(found[1]))
                              items == SplitOn(rest, ", ")
                          IN  /\ Len(items) = Len(labels)
                              /\ \A i \in DOMAIN labels :
                                     Cardinality({j \in DOMAIN items :
                                        items[j] = labels[i][1] \o "=" \o labels[i][2]}) = 1
                /\ labels = << <<"env", "prod">> >> => found = << "- **Labels**: env=prod" >>

\* hetzner_get_server has formatted a server whose labels are {env: prod}
Wit_C22 ==
    \E c \in Calls :
        /\ FormatsOne(calls[c])
        /\ calls[c].tool = "hetzner_get_server"
        /\ Formatted(calls[c]).labels = << <<"env", "prod">> >>
        /\ Contains(calls[c].result.content[1].text, "- **Labels**: env=prod")

(***************************************************************************)
(* C23: the root password in the markdown text of hetzner_create_server    *)
(***************************************************************************)
\* the line occurs among the lines of the text
HasLine(text, line) == Contains("\n" \o text \o "\n", "\n" \o line \o "\n")

\* the markdown text shows the password pw with the guidance to save it
ShowsPassword(text, pw) ==
    /\ HasLine(text, "**Root Password**: '" \o pw \o "'")
    /\ Contains(text \o "\n", "Save this password! It will not be shown again.\n")

\* the markdown text has neither a password line nor the guidance
ShowsNoPassword(text) ==
    /\ ~Contains(text, "Root Password")
    /\ ~Contains(text, "It will not be shown again.")

\* the values the caller can give for ssh_keys
SSHKeyChoices == {NoList, SomeList(<< >>), SomeList(<<"my-laptop">>)}

\* C23: in markdown mode a create-server result shows the root password and
\* the guidance that it will not be shown again exactly when the response
\* carries a non-empty root_password, and the line that no root password was
\* generated otherwise; the text is the same whatever SSH keys the caller
\* supplied.
Thm_C23 ==
    \A c \in Calls :
        (Created(calls[c]) /\ calls[c].params.response_format = MARKDOWN) =>
            LET text == calls[c].result.content[1].text
                pw == calls[c].outcome.data.root_password
                nonEmpty == pw.def /\ Len(pw.s) > 0
            IN  /\ ~calls[c].result.isError
                /\ nonEmpty =>
                       /\ ShowsPassword(text, pw.s)
                       /\ ~Contains(text, "No root password was generated.")
                /\ ~nonEmpty =>
                       /\ HasLine(text, "SSH key authentication is configured. No root password was generated.")
                       /\ ShowsNoPassword(text)
                /\ \A keys \in SSHKeyChoices :
                       text = CreateServerText([calls[c].params EXCEPT !.ssh_keys = keys],
                                               calls[c].outcome.data)

\* the scenario of the specification: my-app, cx22, ubuntu-24.04 and no SSH
\* keys; the response carries a password and the markdown text shows it
\* with the guidance
Wit_C23 ==
    \E c \in Calls :
        /\ Created(calls[c])
        /\ calls[c].params.response_format = MARKDOWN
        /\ calls[c].raw.name = "my-app"
        /\ calls[c].raw.server_type = "cx22"
        /\ calls[c].raw.image = "ubuntu-24.04"
        /\ ~calls[c].raw.ssh_keys.def
        /\ calls[c].outcome.data.root_password = JsStr("s3cr3tPw")
        /\ ShowsPassword(calls[c].result.content[1].text, "s3cr3tPw")

(***************************************************************************)
(* C24: the failures handleApiError does not recognize                     *)
(***************************************************************************)
\* the thrown value is neither an HTTP response, a connection timeout nor an
\* unreachable host
Unrecognized ==
    /\ ~HasResponse
    /\ ~(NoResponse /\ thrown.code \in {JsStr("ECONNABORTED"), JsStr("ENOTFOUND")})

\* the thrown value is an Error (an Axios error is one)
IsError == thrown.cls \in {"AxiosError", "Error"}

FixedFallback == "Error: An unexpected error occurred."

\* C24 as stated: every failure that is neither an HTTP response, a
\* connection timeout nor an unreachable host yields the generic fallback
\* message.
Orig_C24 == (Normalized /\ Unrecognized) => message = Returned(FixedFallback)

\* C24: a failure that is neither an HTTP response, a connection timeout nor
\* an unreachable host never makes handleApiError throw; when it is an Error,
\* an Axios error with another code such as a refused connection included,
\* the message is 'Error: ' followed by the error's own message, and only a
\* thrown value that is not an Error yields the fixed fallback message.
Thm_C24 ==
    (Normalized /\ Unrecognized) =>
        /\ ~message.threw
        /\ IsError => message.value = "Error: " \o thrown.message
        /\ ~IsError => message.value = FixedFallback
        /\ message.value = FixedFallback => ~IsError

\* a refused connection has been normalized to its own message
Wit_C24 ==
    /\ Normalized
    /\ NoResponse
    /\ thrown.code = JsStr("ECONNREFUSED")
    /\ thrown.message = "Network Error"
    /\ message = Returned("Error: Network Error")

(***************************************************************************)
(* C25: the lines of a formatted server                                    *)
(***************************************************************************)
\* hetzner_get_server has returned the markdown text of a server
ServerShown(call) ==
    /\ call.tool = "hetzner_get_server"
    /\ call.pc = "returned"
    /\ call.outcome.ok
    /\ call.params.response_format = MARKDOWN

\* the lines of the server in that text, after the title and the empty line
ServerLines(call) ==
    LET all == LinesOf(call.result.content[1].text)
    IN  SubSeq(all, 3, Len(all))

\* how the lines of a server start, in their order
LineStarts(server) ==
    << "## ", "- **Status**: ", "- **IPv4**: ", "- **IPv6**: ", "- **Type**: ",
       "- **Location**: " >>
    \o (IF server.image.def THEN << "- **Image**: " >> ELSE << >>)
    \o << "- **Created**: " >>
    \o (IF Len(server.labels) > 0 THEN << "- **Labels**: " >> ELSE << >>)

\* C25: the text of a server has its lines in the order heading (name and
\* id), status, IPv4, IPv6, type, location, image, created, labels and no
\* other line; an address that is missing is shown as N/A and the result is
\* no error; the image line is there exactly when the server has an image.
Thm_C25 ==
    \A c \in Calls :
        ServerShown(calls[c]) =>
            LET server == calls[c].outcome.data.server
                lines == ServerLines(calls[c])
                starts == LineStarts(server)
            IN  /\ ~calls[c].result.isError
                /\ Len(lines) = Len(starts)
                /\ \A i \in DOMAIN starts : StartsWith(lines[i], starts[i])
                /\ lines[1] = "## " \o server.name \o " (ID: " \o ToString(server.id) \o ")"
                /\ lines[2] = "- **Status**: " \o server.status
                /\ lines[3] = "- **IPv4**: " \o (IF server.ipv4.def /\ server.ipv4.s # ""
                                                  THEN server.ipv4.s ELSE "N/A")
                /\ lines[4] = "- **IPv6**: " \o (IF server.ipv6.def /\ server.ipv6.s # ""
                                                  THEN server.ipv6.s ELSE "N/A")
                /\ server.image.def
                       <=> (\E i \in DOMAIN lines : StartsWith(lines[i], "- **Image**: "))

\* a server without addresses and without an image has been shown: both
\* addresses read N/A and there is no image line
Wit_C25 ==
    \E c \in Calls :
        /\ ServerShown(calls[c])
        /\ ~calls[c].outcome.data.server.ipv4.def
        /\ ~calls[c].outcome.data.server.ipv6.def
        /\ ~calls[c].outcome.data.server.image.def
        /\ ~calls[c].result.isError
        /\ ServerLines(calls[c])[3] = "- **IPv4**: N/A"
        /\ ServerLines(calls[c])[4] = "- **IPv6**: N/A"
        /\ Len(ServerLines(calls[c])) = 7

(***************************************************************************)
(* C26: every invocation ends                                              *)
(***************************************************************************)
\* no invocation has sent more than its one request
SingleRequest == \A c \in Calls : calls[c].sent <= 1

\* an invocation that starts either returns at once or waits for its one
\* request, and the step that settles the request is the step in which the
\* handler returns
EndsOnSettle ==
    \A c \in Calls :
        /\ (calls[c].pc = "idle" /\ calls'[c].pc # "idle") =>
               \/ calls'[c].pc = "returned" /\ calls'[c].sent = 0
               \/ calls'[c].pc = "awaiting" /\ calls'[c].sent = 1
        /\ (calls[c].pc = "awaiting" /\ calls'[c] # calls[c]) =>
               /\ calls'[c].pc = "returned"
               /\ calls'[c].sent = 1
               /\ calls'[c].outcome # NoOutcome

\* C26: every invocation returns a result: it waits only for its one HTTP
\* request, and once that request is answered, fails or times out the
\* handler returns in the same step, whatever the other invocations do;
\* since a request in flight settles, a waiting invocation always returns.
Thm_C26 ==
    /\ []SingleRequest
    /\ [][EndsOnSettle]_vars
    /\ \A c \in Calls : (calls[c].pc = "awaiting") ~> (calls[c].pc = "returned")

\* an invocation has returned the timeout message while another one still
\* waits for its answer
Wit_C26 ==
    \E c, d \in Calls :
        /\ calls[c].pc = "returned"
        /\ calls[c].sent = 1
        /\ ~calls[c].outcome.ok
        /\ calls[c].outcome.error.code = JsStr("ECONNABORTED")
        /\ calls[c].result = ErrorResult(MsgTimeout)
        /\ calls[d].pc = "awaiting"

(***************************************************************************)
(* C27: a failed creation of the client                                    *)
(***************************************************************************)
\* the step runs the handler of invocation c up to its await or its return
HandlerStarts(c) == calls[c].pc = "idle" /\ calls'[c].pc \in {"awaiting", "returned"}

\* what a handler that starts without a client does: without the credential
\* it returns the configuration error and leaves the client unset, with the
\* credential it creates the client from it and sends its request
InitializationRetried ==
    \A c \in Calls :
        (HandlerStarts(c) /\ ~apiClient.def) =>
            IF Truthy(env)
              THEN /\ apiClient'.def
                   /\ apiClient'.authorization = "Bearer " \o env.s
                   /\ clientsCreated' = clientsCreated + 1
                   /\ calls'[c].pc = "awaiting"
                   /\ calls'[c].sent = 1
                   /\ calls'[c].client = apiClient'
              ELSE /\ ~apiClient'.def
                   /\ clientsCreated' = clientsCreated
                   /\ calls'[c].pc = "returned"
                   /\ calls'[c].sent = 0
                   /\ calls'[c].result = ErrorResult("Error: " \o TokenRequiredMessage)

\* a failure leaves no client behind
FailureLeavesNoClient ==
    (clientsCreated = 0 <=> ~apiClient.def) /\ (~tokenRead => ~apiClient.def)

\* C27: a failed initialization is not memoized: as long as no client
\* exists and the credential is absent, every call that needs the client
\* gets the configuration error again and the client stays unset, however
\* many calls have failed before; the first call made once the credential
\* is present creates the client from it and sends its request.
Thm_C27 == []FailureLeavesNoClient /\ [][InitializationRetried]_vars

\* one invocation has failed for want of the credential and a later one,
\* made after the credential was set, waits for its answer on the client it
\* created
Wit_C27 ==
    \E c, d \in Calls :
        /\ ConfigFailed(calls[c])
        /\ calls[c].result.isError
        /\ calls[d].pc = "awaiting"
        /\ calls[d].client = apiClient
        /\ apiClient.def
        /\ clientsCreated = 1

(***************************************************************************)
(* C28: the body of the create-server request                              *)
(***************************************************************************)
\* hetzner_create_server has sent its request
CreateSent(call) == call.tool = "hetzner_create_server" /\ call.sent = 1

\* the keys of a request body
BodyKeys(body) == {body[i][1] : i \in DOMAIN body}

\* the body has the key with that value, once
HasField(body, key, value) ==
    /\ Cardinality({i \in DOMAIN body : body[i][1] = key}) = 1
    /\ \E i \in DOMAIN body : body[i] = <<key, value>>

\* C28: the body of the create-server request has name, server_type and
\* image as given and start_after_create, true unless the caller set it to
\* false; it has location exactly when a non-empty location was supplied,
\* ssh_keys exactly when a non-empty list was supplied, labels exactly when a
\* label map (an empty one included) was supplied, and no other field, so
\* never response_format.
Thm_C28 ==
    \A c \in Calls :
        CreateSent(calls[c]) =>
            LET raw == calls[c].raw
                body == calls[c].request.data.v
                keys == BodyKeys(body)
            IN  /\ calls[c].request.data.def
                /\ calls[c].request.method = "POST"
                /\ calls[c].request.url = "/servers"
                /\ HasField(body, "name", raw.name)
                /\ HasField(body, "server_type", raw.server_type)
                /\ HasField(body, "image", raw.image)
                /\ HasField(body, "start_after_create", raw.start_after_create # Flag(FALSE))
                /\ "location" \in keys <=> (raw.location.def /\ raw.location.s # "")
                /\ "location" \in keys => HasField(body, "location", raw.location.s)
                /\ "ssh_keys" \in keys <=> (raw.ssh_keys.def /\ Len(raw.ssh_keys.v) > 0)
                /\ "ssh_keys" \in keys => HasField(body, "ssh_keys", raw.ssh_keys.v)
                /\ "labels" \in keys <=> raw.labels.def
                /\ "labels" \in keys => HasField(body, "labels", raw.labels.v)
                /\ "response_format" \notin keys
                /\ keys \subseteq {"name", "server_type", "image", "start_after_create",
                                    "location", "ssh_keys", "labels"}

\* a request was sent for an input with the json format, an empty location,
\* an empty list of SSH keys, an empty label map and start_after_create
\* false: its body has the four fixed fields and the empty label map
Wit_C28 ==
    \E c \in Calls :
        /\ CreateSent(calls[c])
        /\ calls[c].raw.response_format = JsStr(JSON)
        /\ calls[c].raw.location = JsStr("")
        /\ calls[c].raw.ssh_keys = SomeList(<< >>)
        /\ calls[c].raw.labels = SomeList(<< >>)
        /\ calls[c].raw.start_after_create = Flag(FALSE)
        /\ BodyKeys(calls[c].request.data.v)
               = {"name", "server_type", "image", "start_after_create", "labels"}
        /\ HasField(calls[c].request.data.v, "start_after_create", FALSE)

(***************************************************************************)
(* C29: the empty list                                                     *)
(***************************************************************************)
\* a list handler has received a successful answer whose list is empty
EmptyListed(call) ==
    /\ call.tool \in {"hetzner_list_servers", "hetzner_list_ssh_keys"}
    /\ call.pc = "returned"
    /\ call.outcome.ok
    /\ IF call.tool = "hetzner_list_servers"
         THEN call.outcome.data.servers = << >>
         ELSE call.outcome.data.ssh_keys = << >>

\* the hint of each list handler
EmptyHint(tool) ==
    IF tool = "hetzner_list_servers"
      THEN "No servers found. Use 'hetzner_create_server' to create one."
      ELSE "No SSH keys found. Use 'hetzner_create_ssh_key' to add one."

\* C29: when the provider returns an empty list, list-servers and
\* list-SSH-keys return one text item without the error flag: in markdown
\* mode the fixed hint 'No servers found...' or 'No SSH keys found...', in
\* json mode the serialisation of the empty list, '[]'.
Thm_C29 ==
    \A c \in Calls :
        EmptyListed(calls[c]) =>
            /\ ~calls[c].result.isError
            /\ Len(calls[c].result.content) = 1
            /\ calls[c].result.content[1].type = "text"
            /\ calls[c].result.content[1].text
                   = IF calls[c].params.response_format = JSON
                       THEN "[]" ELSE EmptyHint(calls[c].tool)
            /\ calls[c].raw.response_format \in {JsUndef, JsStr(MARKDOWN)}
                   => /\ StartsWith(calls[c].result.content[1].text, "No ")
                      /\ Contains(calls[c].result.content[1].text, " found. Use ")

\* hetzner_list_servers got an empty list and returned the hint in markdown
\* mode
Wit_C29 ==
    \E c \in Calls :
        /\ EmptyListed(calls[c])
        /\ calls[c].tool = "hetzner_list_servers"
        /\ calls[c].params.response_format = MARKDOWN
        /\ calls[c].result
               = TextResult("No servers found. Use 'hetzner_create_server' to create one.")

====
